---- MODULE Spec2Model ----
(***************************************************************************)
(* Model of npbrain/integration/integrator.py: the scheme registry         *)
(* (get_integrator), the step-function builders for ODEs and SDEs, the     *)
(* Integrator classes used in merge mode and the step functions the        *)
(* builders return.                                                        *)
(*                                                                         *)
(* Strings whose characters matter (method names, messages) are sequences  *)
(* of one-character strings.  Numbers are exact rationals <<n, d>>; a zero *)
(* denominator stands for the non-finite floats (nan = <<0,0>>,            *)
(* inf = <<1,0>>, -inf = <<-1,0>>).                                        *)
(***************************************************************************)
EXTENDS Integers, Sequences, FiniteSets, TLC

\* ------------------------------------------------------------------------
\* Bounds of the model
\* ------------------------------------------------------------------------

\* at most this many letters of a method name are given in upper case
MaxUpper == 1

\* ------------------------------------------------------------------------
\* Method names and str.lower()
\* ------------------------------------------------------------------------

UpperChars ==
  <<"A","B","C","D","E","F","G","H","I","J","K","L","M",
    "N","O","P","Q","R","S","T","U","V","W","X","Y","Z">>

LowerChars ==
  <<"a","b","c","d","e","f","g","h","i","j","k","l","m",
    "n","o","p","q","r","s","t","u","v","w","x","y","z">>

IsUpperChar(c) == \E i \in 1..Len(UpperChars) : UpperChars[i] = c

IsLowerChar(c) == \E i \in 1..Len(LowerChars) : LowerChars[i] = c

LowerChar(c) ==
  IF IsUpperChar(c)
    THEN LowerChars[CHOOSE i \in 1..Len(UpperChars) : UpperChars[i] = c]
    ELSE c

UpperChar(c) ==
  IF IsLowerChar(c)
    THEN UpperChars[CHOOSE i \in 1..Len(LowerChars) : LowerChars[i] = c]
    ELSE c

\* str.lower(): every cased character is replaced by its lower-case form
Lower(s) == [i \in 1..Len(s) |-> LowerChar(s[i])]

\* the string literals the if-chain of get_integrator compares against
N_euler == <<"e","u","l","e","r">>
N_midpoint == <<"m","i","d","p","o","i","n","t">>
N_heun == <<"h","e","u","n">>
N_rk2 == <<"r","k","2">>
N_rk3 == <<"r","k","3">>
N_rk4 == <<"r","k","4">>
N_exponential == <<"e","x","p","o","n","e","n","t","i","a","l">>
N_milstein == <<"m","i","l","s","t","e","i","n">>
N_milstein_ito == <<"m","i","l","s","t","e","i","n","_","i","t","o">>
N_milstein_stra == <<"m","i","l","s","t","e","i","n","_","s","t","r","a">>

RecognisedNames ==
  { N_euler, N_midpoint, N_heun, N_rk2, N_rk3, N_rk4, N_exponential,
    N_milstein, N_milstein_ito, N_milstein_stra }

\* ------------------------------------------------------------------------
\* get_integrator
\* ------------------------------------------------------------------------

NoExc == [type |-> "None", msg |-> <<>>]

\* the text of  f'Unknown method: {method}.'
UnknownMethodMsg(method) ==
  <<"U","n","k","n","o","w","n"," ","m","e","t","h","o","d",":"," ">>
    \o method \o <<".">>

Returned(b) == [ret |-> b, exc |-> NoExc]

Raised(type, msg) == [ret |-> "None", exc |-> [type |-> type, msg |-> msg]]

\* a variant of get_integrator that compares the name as given
get_integrator_cased(method, merge) ==
  IF method = N_euler THEN Returned(IF merge THEN "Euler" ELSE "euler")
  ELSE IF method = N_midpoint
    THEN Returned(IF merge THEN "MidPoint" ELSE "ode_midpoint")
  ELSE IF method = N_heun THEN Returned(IF merge THEN "Heun" ELSE "ode_heun")
  ELSE IF method = N_rk2 THEN Returned(IF merge THEN "RK2" ELSE "sde_rk2")
  ELSE IF method = N_rk3 THEN Returned(IF merge THEN "RK3" ELSE "ode_rk3")
  ELSE IF method = N_rk4 THEN Returned(IF merge THEN "RK4" ELSE "ode_rk4")
  ELSE IF method = N_exponential
    THEN Returned(IF merge THEN "ExponentialEuler" ELSE "ode_exponential_euler")
  ELSE IF method = N_milstein
    THEN Returned(IF merge THEN "MilsteinIto" ELSE "sde_Milstein_Ito")
  ELSE IF method = N_milstein_ito
    THEN Returned(IF merge THEN "MilsteinIto" ELSE "sde_Milstein_Ito")
  ELSE IF method = N_milstein_stra
    THEN Returned(IF merge THEN "MilsteinStra" ELSE "sde_Milstein_Stra")
  ELSE Raised("ValueError", UnknownMethodMsg(method))

\* a variant of get_integrator that never looks at the merge flag
get_integrator_nomerge(method, merge) ==
  get_integrator_cased(Lower(method), FALSE)

\* a variant of get_integrator that falls back to Euler for an unknown name
get_integrator_fallback(method, merge) ==
  IF get_integrator_cased(Lower(method), merge).exc = NoExc
    THEN get_integrator_cased(Lower(method), merge)
    ELSE Returned(IF merge THEN "Euler" ELSE "euler")

\* a variant of get_integrator in which 'milstein' stands for the
\* Stratonovich scheme
get_integrator_milstein_is_stra(method, merge) ==
  IF Lower(method) = N_milstein
    THEN Returned(IF merge THEN "MilsteinStra" ELSE "sde_Milstein_Stra")
    ELSE get_integrator_cased(Lower(method), merge)

\* get_integrator(method), with profile.merge_integral passed as merge
get_integrator(method, merge) ==
  IF Lower(method) = N_euler THEN Returned(IF merge THEN "Euler" ELSE "euler")
  ELSE IF Lower(method) = N_midpoint
    THEN Returned(IF merge THEN "MidPoint" ELSE "ode_midpoint")
  ELSE IF Lower(method) = N_heun
    THEN Returned(IF merge THEN "Heun" ELSE "ode_heun")
  ELSE IF Lower(method) = N_rk2
    THEN Returned(IF merge THEN "RK2" ELSE "sde_rk2")
  ELSE IF Lower(method) = N_rk3
    THEN Returned(IF merge THEN "RK3" ELSE "ode_rk3")
  ELSE IF Lower(method) = N_rk4
    THEN Returned(IF merge THEN "RK4" ELSE "ode_rk4")
  ELSE IF Lower(method) = N_exponential
    THEN Returned(IF merge THEN "ExponentialEuler" ELSE "ode_exponential_euler")
  ELSE IF Lower(method) = N_milstein
    THEN Returned(IF merge THEN "MilsteinIto" ELSE "sde_Milstein_Ito")
  ELSE IF Lower(method) = N_milstein_ito
    THEN Returned(IF merge THEN "MilsteinIto" ELSE "sde_Milstein_Ito")
  ELSE IF Lower(method) = N_milstein_stra
    THEN Returned(IF merge THEN "MilsteinStra" ELSE "sde_Milstein_Stra")
  ELSE Raised("ValueError", UnknownMethodMsg(method))

\* the Integrator subclasses and the module-level builder functions
IntegratorClasses ==
  { "Exact", "Euler", "RK2", "Heun", "MidPoint", "RK3", "RK4",
    "RK4Alternative", "ExponentialEuler", "MilsteinIto", "MilsteinStra" }

BuilderFunctions ==
  { "euler", "ode_rk2", "ode_heun", "ode_midpoint", "ode_rk3", "ode_rk4",
    "ode_rk4_alternative", "ode_exponential_euler", "sde_euler",
    "sde_exponential_euler", "sde_Milstein_Ito", "sde_heun",
    "sde_Milstein_Stra", "sde_rk2", "sde_rk3", "sde_rk4" }

\* ------------------------------------------------------------------------
\* Numbers: exact rationals <<n, d>> with d >= 0
\* ------------------------------------------------------------------------

RECURSIVE Gcd(_, _)
Gcd(a, b) == IF b = 0 THEN a ELSE Gcd(b, a % b)

Abs(n) == IF n < 0 THEN -n ELSE n

Sgn(n) == IF n < 0 THEN -1 ELSE IF n > 0 THEN 1 ELSE 0

\* the reduced form of n/d (d >= 0); n/0 is inf, -inf or nan
RNorm(n, d) ==
  IF d = 0 THEN <<Sgn(n), 0>>
  ELSE LET g == Gcd(Abs(n), d) IN <<n \div g, d \div g>>

R(n) == <<n, 1>>

NaN == <<0, 0>>

IsFinite(x) == x[2] # 0

RAdd(x, y) ==
  IF x[2] = 0 /\ y[2] = 0
    THEN (IF x[1] = y[1] THEN x ELSE NaN)
    ELSE LET g == Gcd(x[2], y[2])
         IN RNorm(x[1] * (y[2] \div g) + y[1] * (x[2] \div g),
                  x[2] * (y[2] \div g))

RNeg(x) == <<-x[1], x[2]>>

RSub(x, y) == RAdd(x, RNeg(y))

RMul(x, y) == RNorm(x[1] * y[1], x[2] * y[2])

\* numpy division: x / 0 is inf or nan, never an exception
RDiv(x, y) ==
  IF y[1] = 0 /\ y[2] # 0 THEN <<Sgn(x[1]), 0>>
  ELSE RNorm(x[1] * y[2] * Sgn(y[1]), x[2] * Abs(y[1]))

\* np.sqrt on the step sizes the model uses (perfect squares)
RSqrt(x) ==
  CHOOSE s \in { RNorm(n, d) : n \in 0..4, d \in 1..4 } : RMul(s, s) = x

\* ------------------------------------------------------------------------
\* The equations handed to the builders
\* ------------------------------------------------------------------------

\* at most this many auxiliary values in a drift function's return tuple
MaxAux == 1

\* the state values y0 the step functions are called with are 1..MaxY
MaxY == 2

\* the decay equation dy/dt = -y, as a function with a scalar return
MinusY ==
  [q |-> 0, a |-> -1, b |-> 0, tup |-> FALSE, lin |-> FALSE, naux |-> 0]

\* A drift function f(y, t) = q*y**2 + a*y + b*t.  tup: it returns a tuple;
\* lin: the tuple holds the linear coefficient f'(y) after the derivative;
\* naux: the number of auxiliary values that follow.  The drifts depend on
\* t (b = 1), but for the decay equation.
Drifts ==
  { f \in [q : 0..1, a : -1..1, b : 0..1, tup : BOOLEAN, lin : BOOLEAN,
           naux : 0..MaxAux] :
      /\ ~f.tup => (~f.lin /\ f.naux = 0)
      /\ f.b = 0 => f = MinusY }

\* the derivative f computes at (y, t)
DriftDy(f, y, t) ==
  RAdd(RAdd(IF f.q = 0 THEN R(0) ELSE RMul(R(f.q), RMul(y, y)),
            RMul(R(f.a), y)),
       RMul(R(f.b), t))

\* the linear coefficient f'(y) a drift reports
DriftLinear(f, y) == RAdd(RMul(R(2 * f.q), y), R(f.a))

\* the i-th auxiliary value f computes at (y, t); it depends on the point
DriftAux(f, y, t, i) == RAdd(RAdd(y, t), R(i))

\* the elements of what f(y, t) returns (one element for a scalar return)
DriftVal(f, y, t) ==
  <<DriftDy(f, y, t)>>
    \o (IF f.lin THEN <<DriftLinear(f, y)>> ELSE <<>>)
    \o [i \in 1..f.naux |-> DriftAux(f, y, t, i)]

\* The diffusion term: a function g(y, t) = a*y + c, the number c, or an
\* object that is neither callable nor an int, float or ndarray.
NoG == [kind |-> "absent", a |-> 0, c |-> 0]

Diffusions ==
  { [kind |-> "callable", a |-> 1, c |-> 0],
    [kind |-> "callable", a |-> 0, c |-> 1],
    [kind |-> "const", a |-> 0, c |-> 1],
    [kind |-> "invalid", a |-> 0, c |-> 0] }

GVal(g, y, t) == RAdd(RMul(R(g.a), y), R(g.c))

DtValues == { <<1, 1>>, <<1, 4>> }

NoNum == NaN

\* beta = 2 / 3, the default of ode_rk2 and RK2.__init__
DefaultBeta == <<2, 3>>

BetaValues == { <<0, 1>>, <<1, 2>>, <<1, 1>> }

\* ------------------------------------------------------------------------
\* What a call returns or raises
\* ------------------------------------------------------------------------

NoVal == [tup |-> FALSE, v |-> <<>>]

\* a returned scalar (tup = FALSE, one element) or tuple
OkVal(tup, v) == [ret |-> [tup |-> tup, v |-> v], exc |-> NoExc]

Err(type) == [ret |-> NoVal, exc |-> [type |-> type, msg |-> <<>>]]

\* val[k:]
From(val, k) == SubSeq(val, k + 1, Len(val))

\* What goes wrong when a step function of the Runge-Kutta, Euler, Heun or
\* Milstein family meets a drift whose return does not fit multi_return:
\* val[0] on a float, or float * tuple.
ShapeExc(multi, f) ==
  IF multi /\ ~f.tup THEN "TypeError"
  ELSE IF ~multi /\ f.tup THEN "TypeError"
  ELSE "None"

\* The same for the exponential schemes, which read val[0], val[1] or
\* unpack  df, linear_part = f(...).
ExpShapeExc(multi, f) ==
  IF ~f.tup THEN "TypeError"
  ELSE IF multi /\ Len(DriftVal(f, R(0), R(0))) < 2 THEN "IndexError"
  ELSE IF ~multi /\ Len(DriftVal(f, R(0), R(0))) # 2 THEN "ValueError"
  ELSE "None"

\* ------------------------------------------------------------------------
\* The step functions int_f / int_fg; c is the closure of the step function
\* ------------------------------------------------------------------------

\* y0 + dt * f(y0, t), the four int_f of euler
euler_int_f(c, y0, t, dW) ==
  LET val == DriftVal(c.f, y0, t)
      df == RMul(val[1], c.dt)
      dg == IF c.gcall
              THEN RMul(RMul(c.dt_sqrt, GVal(c.g, y0, t)), dW)
              ELSE RMul(RMul(c.dt_sqrt, R(c.g.c)), dW)
      y == IF c.stoch THEN RAdd(RAdd(y0, df), dg)
                      ELSE RAdd(y0, RMul(c.dt, val[1]))
  IN IF ShapeExc(c.multi, c.f) # "None" THEN Err(ShapeExc(c.multi, c.f))
     ELSE IF c.stoch /\ c.gcall /\ c.g.kind # "callable" THEN Err("TypeError")
     ELSE IF c.multi THEN OkVal(TRUE, <<y>> \o From(val, 1))
     ELSE OkVal(FALSE, <<y>>)

\* int_f of ode_rk2
ode_rk2_int_f(c, y0, t) ==
  LET val == DriftVal(c.f, y0, t)
      k1 == val[1]
      bdt == RMul(c.beta, c.dt)
      v == DriftVal(c.f, RAdd(y0, RMul(bdt, k1)), RAdd(t, bdt))
      k2 == v[1]
      w == RDiv(R(1), RMul(R(2), c.beta))
      y == RAdd(y0, RMul(c.dt, RAdd(RMul(RSub(R(1), w), k1), RMul(w, k2))))
  IN IF ShapeExc(c.multi, c.f) # "None" THEN Err(ShapeExc(c.multi, c.f))
     ELSE IF RMul(R(2), c.beta) = R(0) THEN Err("ZeroDivisionError")
     ELSE IF c.multi THEN OkVal(TRUE, <<y>> \o From(val, 1))
     ELSE OkVal(FALSE, <<y>>)

\* int_f of ode_rk3
ode_rk3_int_f(c, y0, t) ==
  LET dt == c.dt
      val == DriftVal(c.f, y0, t)
      k1 == val[1]
      k2 == DriftVal(c.f, RAdd(y0, RMul(RDiv(dt, R(2)), k1)),
                     RAdd(t, RDiv(dt, R(2))))[1]
      k3 == DriftVal(c.f,
                     RAdd(RSub(y0, RMul(dt, k1)), RMul(RMul(R(2), dt), k2)),
                     RAdd(t, dt))[1]
      y == RAdd(y0, RMul(RDiv(dt, R(6)),
                         RAdd(RAdd(k1, RMul(R(4), k2)), k3)))
  IN IF ShapeExc(c.multi, c.f) # "None" THEN Err(ShapeExc(c.multi, c.f))
     ELSE IF c.multi THEN OkVal(TRUE, <<y>> \o From(val, 1))
     ELSE OkVal(FALSE, <<y>>)

\* ode_rk4's int_f, but with the tuple of the last stage passed through
ode_rk4_int_f_lastaux(c, y0, t) ==
  LET dt == c.dt
      val == DriftVal(c.f, y0, t)
      k1 == val[1]
      k2 == DriftVal(c.f, RAdd(y0, RMul(RDiv(dt, R(2)), k1)),
                     RAdd(t, RDiv(dt, R(2))))[1]
      k3 == DriftVal(c.f, RAdd(y0, RMul(RDiv(dt, R(2)), k2)),
                     RAdd(t, RDiv(dt, R(2))))[1]
      v4 == DriftVal(c.f, RAdd(y0, RMul(dt, k3)), RAdd(t, dt))
      k4 == v4[1]
      y == RAdd(y0, RMul(RDiv(dt, R(6)),
             RAdd(RAdd(RAdd(k1, RMul(R(2), k2)), RMul(R(2), k3)), k4)))
  IN IF ShapeExc(c.multi, c.f) # "None" THEN Err(ShapeExc(c.multi, c.f))
     ELSE IF c.multi THEN OkVal(TRUE, <<y>> \o From(v4, 1))
     ELSE OkVal(FALSE, <<y>>)

\* ode_rk4's int_f, but with the weights 1/8, 3/8, 3/8, 1/8 of the
\* alternative scheme on the classical stages
ode_rk4_int_f_eighths(c, y0, t) ==
  LET dt == c.dt
      val == DriftVal(c.f, y0, t)
      k1 == val[1]
      k2 == DriftVal(c.f, RAdd(y0, RMul(RDiv(dt, R(2)), k1)),
                     RAdd(t, RDiv(dt, R(2))))[1]
      k3 == DriftVal(c.f, RAdd(y0, RMul(RDiv(dt, R(2)), k2)),
                     RAdd(t, RDiv(dt, R(2))))[1]
      k4 == DriftVal(c.f, RAdd(y0, RMul(dt, k3)), RAdd(t, dt))[1]
      y == RAdd(y0, RMul(RDiv(dt, R(8)),
             RAdd(RAdd(RAdd(k1, RMul(R(3), k2)), RMul(R(3), k3)), k4)))
  IN IF ShapeExc(c.multi, c.f) # "None" THEN Err(ShapeExc(c.multi, c.f))
     ELSE IF c.multi THEN OkVal(TRUE, <<y>> \o From(val, 1))
     ELSE OkVal(FALSE, <<y>>)

\* int_f of ode_rk4
ode_rk4_int_f(c, y0, t) ==
  LET dt == c.dt
      val == DriftVal(c.f, y0, t)
      k1 == val[1]
      k2 == DriftVal(c.f, RAdd(y0, RMul(RDiv(dt, R(2)), k1)),
                     RAdd(t, RDiv(dt, R(2))))[1]
      k3 == DriftVal(c.f, RAdd(y0, RMul(RDiv(dt, R(2)), k2)),
                     RAdd(t, RDiv(dt, R(2))))[1]
      k4 == DriftVal(c.f, RAdd(y0, RMul(dt, k3)), RAdd(t, dt))[1]
      y == RAdd(y0, RMul(RDiv(dt, R(6)),
             RAdd(RAdd(RAdd(k1, RMul(R(2), k2)), RMul(R(2), k3)), k4)))
  IN IF ShapeExc(c.multi, c.f) # "None" THEN Err(ShapeExc(c.multi, c.f))
     ELSE IF c.multi THEN OkVal(TRUE, <<y>> \o From(val, 1))
     ELSE OkVal(FALSE, <<y>>)

\* int_f of ode_rk4_alternative
ode_rk4_alternative_int_f(c, y0, t) ==
  LET dt == c.dt
      val == DriftVal(c.f, y0, t)
      k1 == val[1]
      k2 == DriftVal(c.f, RAdd(y0, RMul(RDiv(dt, R(3)), k1)),
                     RAdd(t, RDiv(dt, R(3))))[1]
      k3 == DriftVal(c.f,
                     RAdd(RSub(y0, RMul(RDiv(dt, R(3)), k1)), RMul(dt, k2)),
                     RAdd(t, RDiv(RMul(R(2), dt), R(3))))[1]
      k4 == DriftVal(c.f,
                     RAdd(RSub(RAdd(y0, RMul(dt, k1)), RMul(dt, k2)),
                          RMul(dt, k3)),
                     RAdd(t, dt))[1]
      y == RAdd(y0, RMul(RDiv(dt, R(8)),
             RAdd(RAdd(RAdd(k1, RMul(R(3), k2)), RMul(R(3), k3)), k4)))
  IN IF ShapeExc(c.multi, c.f) # "None" THEN Err(ShapeExc(c.multi, c.f))
     ELSE IF c.multi THEN OkVal(TRUE, <<y>> \o From(val, 1))
     ELSE OkVal(FALSE, <<y>>)

\* a variant of the exponential update that takes the Euler step
\* y0 + dt * df + dg when A * dt is zero
ExpUpdate_euler_at_zero(y0, A, dt, df, dg) ==
  IF ~IsFinite(A) THEN NaN
  ELSE IF RMul(A, dt) = R(0) THEN RAdd(RAdd(y0, RMul(dt, df)), dg)
  ELSE <<RSub(y0, RDiv(df, A)), RAdd(RDiv(df, A), dg), RMul(A, dt)>>

\* The value c0 + c1 * exp(x) for x # 0, kept in closed form: <<c0, c1, x>>.
\* y0 + (np.exp(A * dt) - 1) / A * df + np.exp(A * dt) * dg is such a value;
\* for A = 0 it is (1 - 1) / 0 * df = nan.
ExpUpdate(y0, A, dt, df, dg) ==
  IF ~IsFinite(A) THEN NaN
  ELSE IF RMul(A, dt) = R(0)
    THEN RAdd(RAdd(y0, RMul(RDiv(RSub(R(1), R(1)), A), df)), dg)
  ELSE <<RSub(y0, RDiv(df, A)), RAdd(RDiv(df, A), dg), RMul(A, dt)>>

\* a variant of ode_exponential_euler's int_f that takes the forward Euler
\* step y0 + dt * df
ode_exponential_euler_int_f_forward(c, y0, t) ==
  LET val == DriftVal(c.f, y0, t)
      y == RAdd(y0, RMul(c.dt, val[1]))
  IN IF ExpShapeExc(c.multi, c.f) # "None"
       THEN Err(ExpShapeExc(c.multi, c.f))
     ELSE IF c.multi THEN OkVal(TRUE, <<y>> \o From(val, 2))
     ELSE OkVal(FALSE, <<y>>)

\* int_f of ode_exponential_euler
ode_exponential_euler_int_f(c, y0, t) ==
  LET val == DriftVal(c.f, y0, t)
      df == val[1]
      linear_part == val[2]
      y == ExpUpdate(y0, linear_part, c.dt, df, R(0))
  IN IF ExpShapeExc(c.multi, c.f) # "None"
       THEN Err(ExpShapeExc(c.multi, c.f))
     ELSE IF c.multi THEN OkVal(TRUE, <<y>> \o From(val, 2))
     ELSE OkVal(FALSE, <<y>>)

\* the four int_fg of sde_euler
sde_euler_int_fg(c, y0, t, dW) ==
  LET val == DriftVal(c.f, y0, t)
      df == RMul(val[1], c.dt)
      dg == IF c.gcall
              THEN RMul(RMul(c.dt_sqrt, GVal(c.g, y0, t)), dW)
              ELSE RMul(RMul(c.dt_sqrt, R(c.g.c)), dW)
      y == RAdd(RAdd(y0, df), dg)
  IN IF ShapeExc(c.multi, c.f) # "None" THEN Err(ShapeExc(c.multi, c.f))
     ELSE IF c.gcall /\ c.g.kind # "callable" THEN Err("TypeError")
     ELSE IF c.multi THEN OkVal(TRUE, <<y>> \o From(val, 1))
     ELSE OkVal(FALSE, <<y>>)

\* the four int_fg of sde_exponential_euler
sde_exponential_euler_int_fg(c, y0, t, dW) ==
  LET val == DriftVal(c.f, y0, t)
      dydt == val[1]
      linear_part == val[2]
      dg == IF c.gcall
              THEN RMul(RMul(c.dt_sqrt, GVal(c.g, y0, t)), dW)
              ELSE RMul(RMul(c.dt_sqrt, R(c.g.c)), dW)
      y1 == ExpUpdate(y0, linear_part, c.dt, dydt, dg)
  IN IF ExpShapeExc(c.multi, c.f) # "None"
       THEN Err(ExpShapeExc(c.multi, c.f))
     ELSE IF c.gcall /\ c.g.kind # "callable" THEN Err("TypeError")
     ELSE IF c.multi /\ c.gcall THEN OkVal(TRUE, <<y1>> \o From(val, 2))
     ELSE IF c.multi THEN OkVal(TRUE, <<y1>> \o From(val, 1))
     ELSE OkVal(FALSE, <<y1>>)

\* the two int_fg of sde_Milstein_Ito
sde_Milstein_Ito_int_fg(c, y0, t, dW) ==
  LET val == DriftVal(c.f, y0, t)
      df == RMul(val[1], c.dt)
      g_n == GVal(c.g, y0, t)
      dg == RMul(RMul(g_n, dW), c.dt_sqrt)
      y_n_bar == RAdd(RAdd(y0, df), RMul(g_n, c.dt_sqrt))
      g_n_bar == GVal(c.g, y_n_bar, t)
      y1 == RAdd(RAdd(RAdd(y0, df), dg),
                 RMul(RMul(<<1, 2>>, RSub(g_n_bar, g_n)),
                      RSub(RMul(RMul(dW, dW), c.dt_sqrt), c.dt_sqrt)))
  IN IF ShapeExc(c.multi, c.f) # "None" THEN Err(ShapeExc(c.multi, c.f))
     ELSE IF c.g.kind # "callable" THEN Err("TypeError")
     ELSE IF c.multi THEN OkVal(TRUE, <<y1>> \o From(val, 1))
     ELSE OkVal(FALSE, <<y1>>)

\* the two int_fg of sde_heun
sde_heun_int_fg(c, y0, t, dW) ==
  LET val == DriftVal(c.f, y0, t)
      df == RMul(val[1], c.dt)
      gn == GVal(c.g, y0, t)
      y_bar == RAdd(y0, RMul(RMul(gn, dW), c.dt_sqrt))
      gn_bar == GVal(c.g, y_bar, t)
      dg == RMul(RMul(RMul(<<1, 2>>, RAdd(gn, gn_bar)), dW), c.dt_sqrt)
      y1 == RAdd(RAdd(y0, df), dg)
  IN IF ShapeExc(c.multi, c.f) # "None" THEN Err(ShapeExc(c.multi, c.f))
     ELSE IF c.g.kind # "callable" THEN Err("TypeError")
     ELSE IF c.multi THEN OkVal(TRUE, <<y1>> \o From(val, 1))
     ELSE OkVal(FALSE, <<y1>>)

\* a variant of sde_Milstein_Stra's int_fg with the correction term of the
\* Ito scheme
sde_Milstein_Stra_int_fg_ito(c, y0, t, dW) ==
  sde_Milstein_Ito_int_fg(c, y0, t, dW)

\* the two int_fg of sde_Milstein_Stra
sde_Milstein_Stra_int_fg(c, y0, t, dW) ==
  LET val == DriftVal(c.f, y0, t)
      df == RMul(val[1], c.dt)
      g_n == GVal(c.g, y0, t)
      dg == RMul(RMul(g_n, dW), c.dt_sqrt)
      y_n_bar == RAdd(RAdd(y0, df), RMul(g_n, c.dt_sqrt))
      g_n_bar == GVal(c.g, y_n_bar, t)
      extra_term == RMul(RMul(<<1, 2>>, RSub(g_n_bar, g_n)),
                         RMul(RMul(dW, dW), c.dt_sqrt))
      y1 == RAdd(RAdd(RAdd(y0, df), dg), extra_term)
  IN IF ShapeExc(c.multi, c.f) # "None" THEN Err(ShapeExc(c.multi, c.f))
     ELSE IF c.g.kind # "callable" THEN Err("TypeError")
     ELSE IF c.multi THEN OkVal(TRUE, <<y1>> \o From(val, 1))
     ELSE OkVal(FALSE, <<y1>>)

\* one call of a built step function: the int_f / int_fg whose def the
\* builder executed
StepCall(c, y0, t, dW) ==
  CASE c.code = "euler" -> euler_int_f(c, y0, t, dW)
    [] c.code = "ode_rk2" -> ode_rk2_int_f(c, y0, t)
    [] c.code = "ode_rk3" -> ode_rk3_int_f(c, y0, t)
    [] c.code = "ode_rk4" -> ode_rk4_int_f(c, y0, t)
    [] c.code = "ode_rk4_alternative" -> ode_rk4_alternative_int_f(c, y0, t)
    [] c.code = "ode_exponential_euler" -> ode_exponential_euler_int_f(c, y0, t)
    [] c.code = "sde_euler" -> sde_euler_int_fg(c, y0, t, dW)
    [] c.code = "sde_exponential_euler" ->
         sde_exponential_euler_int_fg(c, y0, t, dW)
    [] c.code = "sde_Milstein_Ito" -> sde_Milstein_Ito_int_fg(c, y0, t, dW)
    [] c.code = "sde_heun" -> sde_heun_int_fg(c, y0, t, dW)
    [] c.code = "sde_Milstein_Stra" -> sde_Milstein_Stra_int_fg(c, y0, t, dW)

\* The samples np.random's global generator hands out, one after the other,
\* and again from the start: the state of the generator is the number of
\* samples drawn so far, modulo the length of this stream.
NormalStream == << R(-1), R(2), R(2) >>

\* np.random.normal(0.0, 1.0, y0.shape) with the global generator in state
\* rng: the sample, and the state the call leaves the generator in
np_random_normal(rng) ==
  [sample |-> NormalStream[rng + 1], state |-> (rng + 1) % Len(NormalStream)]

\* a variant of a call in which dt is looked up in the profile by the call
CallStep_profile_dt(c, pdt, rng, y0, t) ==
  LET d == IF c.stoch THEN np_random_normal(rng)
                      ELSE [sample |-> R(0), state |-> rng]
      late == [c EXCEPT !.dt = pdt,
                        !.dt_sqrt = IF c.stoch THEN RSqrt(pdt) ELSE NoNum]
      r == StepCall(late, y0, t, d.sample)
  IN [ret |-> r.ret, exc |-> r.exc, y0 |-> y0, dW |-> d.sample,
      rng |-> d.state]

\* a variant of a call that updates the caller's array in place (y0 += ...)
CallStep_inplace(c, pdt, rng, y0, t) ==
  LET d == IF c.stoch THEN np_random_normal(rng)
                      ELSE [sample |-> R(0), state |-> rng]
      r == StepCall(c, y0, t, d.sample)
  IN [ret |-> r.ret, exc |-> r.exc,
      y0 |-> IF r.exc = NoExc THEN r.ret.v[1] ELSE y0,
      dW |-> d.sample, rng |-> d.state]

\* a variant of a call that draws a sample it throws away before the one
\* it uses
CallStep_two_draws(c, pdt, rng, y0, t) ==
  LET d0 == IF c.stoch THEN np_random_normal(rng)
                       ELSE [sample |-> R(0), state |-> rng]
      d == IF c.stoch THEN np_random_normal(d0.state) ELSE d0
      r == StepCall(c, y0, t, d.sample)
  IN [ret |-> r.ret, exc |-> r.exc, y0 |-> y0, dW |-> d.sample,
      rng |-> d.state]

\* The call int_f(y0, t) / int_fg(y0, t) of the step function with closure c,
\* made while profile.get_dt() is pdt and np.random is in state rng.  dt and
\* dt_sqrt are names of the closure, bound when the builder ran, so pdt is
\* not read; a stochastic step draws dW once from np.random; every statement
\* builds a new value (y0 + df + dg), so the caller's y0 is as it was.
\* Gives what is returned or raised, the caller's y0 after the call, the
\* sample drawn and the state of np.random after the call.
CallStep(c, pdt, rng, y0, t) ==
  LET d == IF c.stoch THEN np_random_normal(rng)
                      ELSE [sample |-> R(0), state |-> rng]
  IN StepCall(c, y0, t, d.sample)
       @@ [y0 |-> y0, dW |-> d.sample, rng |-> d.state]

\* ------------------------------------------------------------------------
\* The builders.  pdt is what profile.get_dt() returns when the builder
\* runs; by names the builder the caller called.
\* ------------------------------------------------------------------------

NoStep == [kind |-> "none"]

\* the closure of a step function: the names its def captured
Closure(by, code, stoch, gcall, multi, f, g, dt, dt_sqrt, beta) ==
  [kind |-> "step", by |-> by, code |-> code, stoch |-> stoch,
   gcall |-> gcall, multi |-> multi, f |-> f, g |-> g, dt |-> dt,
   dt_sqrt |-> dt_sqrt, beta |-> beta]

Built(obj) == [ret |-> obj, exc |-> NoExc]

BuildErr(type) == [ret |-> NoStep, exc |-> [type |-> type, msg |-> <<>>]]

\* dt = profile.get_dt() if dt is None else dt
DtOf(dt, pdt) == IF dt = NoNum THEN pdt ELSE dt

\* euler(diff_eqs)
euler(diff_eqs, pdt, by) ==
  IF diff_eqs.g.kind # "absent"
    THEN IF diff_eqs.g.kind = "callable"
           THEN Built(Closure(by, "euler", TRUE, TRUE, diff_eqs.multi,
                              diff_eqs.f, diff_eqs.g, pdt, RSqrt(pdt), NoNum))
         ELSE IF diff_eqs.g.kind = "const"
           THEN Built(Closure(by, "euler", TRUE, FALSE, diff_eqs.multi,
                              diff_eqs.f, diff_eqs.g, pdt, RSqrt(pdt), NoNum))
         ELSE BuildErr("AssertionError")
    ELSE Built(Closure(by, "euler", FALSE, FALSE, diff_eqs.multi,
                       diff_eqs.f, NoG, pdt, NoNum, NoNum))

\* ode_rk2(f, dt, beta, signature, multi_return)
ode_rk2(f, dt, beta, multi_return, pdt, by) ==
  Built(Closure(by, "ode_rk2", FALSE, FALSE, multi_return, f, NoG,
                DtOf(dt, pdt), NoNum, beta))

\* a variant of ode_heun that passes beta = 0.5, as ode_midpoint does
ode_heun_half(f, dt, multi_return, pdt, by) ==
  ode_rk2(f, dt, <<1, 2>>, multi_return, pdt, by)

\* ode_heun(f, dt, signature, multi_return)
ode_heun(f, dt, multi_return, pdt, by) ==
  ode_rk2(f, dt, <<1, 1>>, multi_return, pdt, by)

\* ode_midpoint(f, dt, signature, multi_return)
ode_midpoint(f, dt, multi_return, pdt, by) ==
  ode_rk2(f, dt, <<1, 2>>, multi_return, pdt, by)

\* ode_rk3(f, dt, signature, multi_return)
ode_rk3(f, dt, multi_return, pdt, by) ==
  Built(Closure(by, "ode_rk3", FALSE, FALSE, multi_return, f, NoG,
                DtOf(dt, pdt), NoNum, NoNum))

\* ode_rk4(f, dt, signature, multi_return)
ode_rk4(f, dt, multi_return, pdt, by) ==
  Built(Closure(by, "ode_rk4", FALSE, FALSE, multi_return, f, NoG,
                DtOf(dt, pdt), NoNum, NoNum))

\* ode_rk4_alternative(f, dt, signature, multi_return)
ode_rk4_alternative(f, dt, multi_return, pdt, by) ==
  Built(Closure(by, "ode_rk4_alternative", FALSE, FALSE, multi_return, f, NoG,
                DtOf(dt, pdt), NoNum, NoNum))

\* ode_exponential_euler(f, dt, signature, multi_return)
ode_exponential_euler(f, dt, multi_return, pdt, by) ==
  Built(Closure(by, "ode_exponential_euler", FALSE, FALSE, multi_return, f, NoG,
                DtOf(dt, pdt), NoNum, NoNum))

\* sde_euler, but without the assert on a diffusion that is not callable
sde_euler_noassert(f, g, dt, multi_return, pdt, by) ==
  Built(Closure(by, "sde_euler", TRUE, g.kind = "callable", multi_return,
                f, g, DtOf(dt, pdt), RSqrt(DtOf(dt, pdt)), NoNum))

\* sde_euler(f, g, dt, signature, multi_return)
sde_euler(f, g, dt, multi_return, pdt, by) ==
  IF g.kind = "callable"
    THEN Built(Closure(by, "sde_euler", TRUE, TRUE, multi_return, f, g,
                       DtOf(dt, pdt), RSqrt(DtOf(dt, pdt)), NoNum))
  ELSE IF g.kind = "const"
    THEN Built(Closure(by, "sde_euler", TRUE, FALSE, multi_return, f, g,
                       DtOf(dt, pdt), RSqrt(DtOf(dt, pdt)), NoNum))
  ELSE BuildErr("AssertionError")

\* sde_exponential_euler(f, g, dt, signature, multi_return)
sde_exponential_euler(f, g, dt, multi_return, pdt, by) ==
  IF g.kind = "callable"
    THEN Built(Closure(by, "sde_exponential_euler", TRUE, TRUE, multi_return,
                       f, g, DtOf(dt, pdt), RSqrt(DtOf(dt, pdt)), NoNum))
  ELSE IF g.kind = "const"
    THEN Built(Closure(by, "sde_exponential_euler", TRUE, FALSE, multi_return,
                       f, g, DtOf(dt, pdt), RSqrt(DtOf(dt, pdt)), NoNum))
  ELSE BuildErr("AssertionError")

\* sde_Milstein_Ito with the test callable(g) left out: its own int_fg is
\* built for every g
sde_Milstein_Ito_nodispatch(f, g, dt, multi_return, pdt, by) ==
  Built(Closure(by, "sde_Milstein_Ito", TRUE, TRUE, multi_return, f, g,
                DtOf(dt, pdt), RSqrt(DtOf(dt, pdt)), NoNum))

\* sde_Milstein_Ito(f, g, dt, signature, multi_return): its own int_fg for a
\* callable g, sde_euler(f, g, dt=dt, ...) otherwise
sde_Milstein_Ito(f, g, dt, multi_return, pdt, by) ==
  IF g.kind = "callable"
    THEN Built(Closure(by, "sde_Milstein_Ito", TRUE, TRUE, multi_return, f, g,
                       DtOf(dt, pdt), RSqrt(DtOf(dt, pdt)), NoNum))
    ELSE sde_euler(f, g, DtOf(dt, pdt), multi_return, pdt, by)

\* sde_heun(f, g, dt, signature, multi_return): its own int_fg for a
\* callable g, sde_euler(f, g, dt=dt, ...) otherwise
sde_heun(f, g, dt, multi_return, pdt, by) ==
  IF g.kind = "callable"
    THEN Built(Closure(by, "sde_heun", TRUE, TRUE, multi_return, f, g,
                       DtOf(dt, pdt), RSqrt(DtOf(dt, pdt)), NoNum))
    ELSE sde_euler(f, g, DtOf(dt, pdt), multi_return, pdt, by)

\* sde_Milstein_Stra(f, g, dt, signature, multi_return): its own int_fg for a
\* callable g, sde_euler(f, g, dt=dt, ...) otherwise
sde_Milstein_Stra(f, g, dt, multi_return, pdt, by) ==
  IF g.kind = "callable"
    THEN Built(Closure(by, "sde_Milstein_Stra", TRUE, TRUE, multi_return, f, g,
                       DtOf(dt, pdt), RSqrt(DtOf(dt, pdt)), NoNum))
    ELSE sde_euler(f, g, DtOf(dt, pdt), multi_return, pdt, by)

\* ------------------------------------------------------------------------
\* The Integrator classes (merge mode)
\* ------------------------------------------------------------------------

\* subclasses of Integrator that do not override the abstract get_nb_step
AbstractClasses ==
  { "RK2", "Heun", "MidPoint", "RK3", "RK4", "RK4Alternative",
    "MilsteinIto", "MilsteinStra" }

NoCode == [kind |-> "None"]

\* an Integrator object: diff_eqs, beta (RK2 only) and _update_code
Instance(cls, diff_eqs, beta, update_code) ==
  [kind |-> "integrator", cls |-> cls, diff_eqs |-> diff_eqs,
   beta |-> beta, update_code |-> update_code]

\* df_expr.has(var) for the expanded drift q*y**2 + a*y + t
HasVar(f) == f.q # 0 \/ f.a # 0

\* the keys var**k of sympy.collect(df_expr, var, evaluate=False): the
\* powers of var that occur in the expanded drift
CollectKeys(f) ==
  (IF f.q # 0 THEN {2} ELSE {}) \cup (IF f.a # 0 THEN {1} ELSE {})

\* ExponentialEuler.get_nb_step: the update it writes into _update_code
ExponentialEuler_get_nb_step(diff_eqs, pdt) ==
  IF HasVar(diff_eqs.f)
    THEN IF 1 \in CollectKeys(diff_eqs.f)
           THEN Built(Instance("ExponentialEuler", diff_eqs, NoNum,
                  [kind |-> "exponential", linear |-> diff_eqs.f.a,
                   dt |-> pdt]))
           ELSE BuildErr("KeyError")
    ELSE Built(Instance("ExponentialEuler", diff_eqs, NoNum,
                        [kind |-> "euler", dt |-> pdt]))

\* cls(diff_eqs) or RK2(diff_eqs, beta)
Construct(cls, diff_eqs, beta, pdt) ==
  IF cls \in AbstractClasses THEN BuildErr("TypeError")
  ELSE IF cls = "ExponentialEuler"
    THEN ExponentialEuler_get_nb_step(diff_eqs, pdt)
  ELSE Built(Instance(cls, diff_eqs, beta, NoCode))

\* ------------------------------------------------------------------------
\* A call builder(f, [g,] dt=..., [beta=...,] multi_return=...) or
\* builder(diff_eqs); a.g is NoG when no diffusion term is passed
\* ------------------------------------------------------------------------

SdeBuilders ==
  { "sde_euler", "sde_exponential_euler", "sde_Milstein_Ito", "sde_heun",
    "sde_Milstein_Stra" }

OdeBuilders ==
  { "ode_rk2", "ode_heun", "ode_midpoint", "ode_rk3", "ode_rk4",
    "ode_rk4_alternative", "ode_exponential_euler" }

\* def sde_rk2(): pass  and its two siblings take no argument
StubBuilders == { "sde_rk2", "sde_rk3", "sde_rk4" }

BetaOf(beta) == IF beta = NoNum THEN DefaultBeta ELSE beta

BuildCall(b, a, pdt) ==
  IF b \in StubBuilders THEN BuildErr("TypeError")
  ELSE IF b \in SdeBuilders /\ a.g.kind = "absent" THEN BuildErr("TypeError")
  ELSE CASE b = "euler" -> euler(a, pdt, b)
    [] b = "ode_rk2" -> ode_rk2(a.f, a.dt, BetaOf(a.beta), a.multi, pdt, b)
    [] b = "ode_heun" -> ode_heun(a.f, a.dt, a.multi, pdt, b)
    [] b = "ode_midpoint" -> ode_midpoint(a.f, a.dt, a.multi, pdt, b)
    [] b = "ode_rk3" -> ode_rk3(a.f, a.dt, a.multi, pdt, b)
    [] b = "ode_rk4" -> ode_rk4(a.f, a.dt, a.multi, pdt, b)
    [] b = "ode_rk4_alternative" ->
         ode_rk4_alternative(a.f, a.dt, a.multi, pdt, b)
    [] b = "ode_exponential_euler" ->
         ode_exponential_euler(a.f, a.dt, a.multi, pdt, b)
    [] b = "sde_euler" -> sde_euler(a.f, a.g, a.dt, a.multi, pdt, b)
    [] b = "sde_exponential_euler" ->
         sde_exponential_euler(a.f, a.g, a.dt, a.multi, pdt, b)
    [] b = "sde_Milstein_Ito" ->
         sde_Milstein_Ito(a.f, a.g, a.dt, a.multi, pdt, b)
    [] b = "sde_heun" -> sde_heun(a.f, a.g, a.dt, a.multi, pdt, b)
    [] b = "sde_Milstein_Stra" ->
         sde_Milstein_Stra(a.f, a.g, a.dt, a.multi, pdt, b)
    [] b \in IntegratorClasses -> Construct(b, a, BetaOf(a.beta), pdt)

\* the builders whose step functions are also called with the quadratic
\* drifts: the two-stage Runge-Kutta ones
QuadraticBuilders == { "ode_rk2", "ode_heun", "ode_midpoint" }

\* the argument lists the model calls builder b with: the builder
\* functions but the two-stage ones get the affine drifts, the Integrator
\* classes every drift
BuildArgs(b) ==
  { a \in [f : Drifts,
           g : IF b \in SdeBuilders \cup IntegratorClasses \cup {"euler"}
                 THEN {NoG} \cup Diffusions ELSE {NoG},
           dt : IF b \in SdeBuilders \cup OdeBuilders
                  THEN {NoNum} \cup DtValues ELSE {NoNum},
           beta : IF b \in {"ode_rk2", "RK2"}
                    THEN {NoNum} \cup BetaValues ELSE {NoNum},
           multi : BOOLEAN] :
      b \in BuilderFunctions \ QuadraticBuilders => a.f.q = 0 }

\* ------------------------------------------------------------------------
\* The state: the profile, and what one caller of the module holds
\* ------------------------------------------------------------------------

VARIABLES
  merge_integral,  \* profile.merge_integral
  profile_dt,      \* what profile.get_dt() returns
  call,            \* the last call into the module, with what it returned
                   \* or raised
  builder,         \* the builder the caller holds: returned by
                   \* get_integrator or imported from the module
  built,           \* what the last call of that builder returned: a step
                   \* function, an Integrator object, or nothing
  np_random,       \* the state of the global generator of np.random
  integrators,     \* the Integrator objects built to be merged into one
                   \* update, in the order they were built
  conn,            \* the attributes of a TwoEndConnector object
  conn_call,       \* the last call of a method of the connector, with what
                   \* it returned or raised
  lif,             \* the attributes of a LIF neuron group
  lif_call,        \* the last call of a method of the group
  container,       \* the Container object the last constructor call made,
                   \* or what the call raised
  arrays,          \* the arrays and Variable objects created, in order
  array_call       \* the last call of Variable.issametype

\* the variables of the connector
conn_vars == <<conn, conn_call>>

\* None as the value of self.pre_size and self.post_size, which hold tuples
\* once set, and of self.pre_num and self.post_num, which hold counts
NoSize == <<>>

NoNumber == -1

\* the variables of the objects of the brainpy package and of the examples
lif_vars == <<lif, lif_call>>

array_vars == <<arrays, array_call>>

object_vars == <<lif_vars, container, array_vars>>

\* a LIF object that is not constructed yet
NoLIF == [num |-> 0]

vars ==
  <<merge_integral, profile_dt, call, builder, built, np_random, integrators,
    conn_vars, object_vars>>

\* the spellings of a recognised name with at most MaxUpper capitals, and
\* the name in capitals
Variants(n) ==
  { [i \in 1..Len(n) |-> IF i \in S THEN UpperChar(n[i]) ELSE n[i]] :
      S \in { T \in SUBSET (1..Len(n)) : Cardinality(T) <= MaxUpper } }
    \cup { [i \in 1..Len(n) |-> UpperChar(n[i])] }

UnknownNames ==
  { <<"n","o","t","_","a","_","m","e","t","h","o","d">>,
    <<"r","k","5">>, <<"r","k">>, <<"r","k","4"," ">>, <<>>,
    <<"e","u","l","e","r","s">>, <<"R","K","4","5">> }

MethodInputs == UNION { Variants(n) : n \in RecognisedNames } \cup UnknownNames

TValues == { R(0), R(1) }

DWValues == { NormalStream[i] : i \in 1..Len(NormalStream) }

Init ==
  /\ merge_integral \in BOOLEAN
  /\ profile_dt \in DtValues
  /\ call = [op |-> "none"]
  /\ builder = "None"
  /\ built = NoStep
  /\ np_random = 0
  /\ integrators = <<>>
  /\ conn = [pre_size |-> NoSize, post_size |-> NoSize, pre_num |-> NoNumber,
             post_num |-> NoNumber]
  /\ conn_call = [op |-> "none"]
  /\ lif = NoLIF
  /\ lif_call = [op |-> "none"]
  /\ container = [op |-> "none"]
  /\ arrays = <<>>
  /\ array_call = [op |-> "none"]

\* profile.merge_integral = b
SetMerge(b) ==
  /\ merge_integral # b
  /\ merge_integral' = b
  /\ UNCHANGED <<profile_dt, call, builder, built,
                 np_random, integrators, conn_vars, object_vars>>

\* profile.set_dt(d)
SetDt(d) ==
  /\ profile_dt # d
  /\ profile_dt' = d
  /\ UNCHANGED <<merge_integral, call, builder, built,
                 np_random, integrators, conn_vars, object_vars>>

\* builder = get_integrator(method), by a caller that holds no builder yet
GetIntegrator(method) ==
  LET r == get_integrator(method, merge_integral) IN
  /\ builder = "None"
  /\ call' = [op |-> "get_integrator", method |-> method,
              merge |-> merge_integral, ret |-> r.ret, exc |-> r.exc]
  /\ builder' = IF r.exc = NoExc THEN r.ret ELSE builder
  /\ UNCHANGED <<merge_integral, profile_dt, built, np_random,
                 integrators, conn_vars, object_vars>>

\* from npbrain.integration.integrator import b
Import(b) ==
  /\ builder = "None"
  /\ call' = [op |-> "import", name |-> b]
  /\ builder' = b
  /\ UNCHANGED <<merge_integral, profile_dt, built, np_random,
                 integrators, conn_vars, object_vars>>

\* built = builder(...), the one call the caller makes of its builder
Build ==
  /\ builder # "None"
  /\ built = NoStep
  /\ call.op # "build"
  /\ \E a \in BuildArgs(builder) :
       LET r == BuildCall(builder, a, profile_dt) IN
       /\ call' = [op |-> "build", builder |-> builder, args |-> a,
                   pdt |-> profile_dt, ret |-> r.ret.kind, exc |-> r.exc]
       /\ built' = r.ret
  /\ UNCHANGED <<merge_integral, profile_dt, builder, np_random,
                 integrators, conn_vars, object_vars>>

\* built(y0, t); dW is the sample np.random.normal draws in the call, and
\* y0_after is the caller's array once the call is over
Step ==
  /\ built.kind = "step"
  /\ \E y \in 1..MaxY, t \in TValues :
       \E r \in { CallStep(built, profile_dt, np_random, R(y), t) } :
         /\ call' = [op |-> "step", y0 |-> R(y), t |-> t, dW |-> r.dW,
                     ret |-> r.ret, exc |-> r.exc, y0_after |-> r.y0]
         /\ np_random' = r.rng
  /\ UNCHANGED <<merge_integral, profile_dt, builder, built,
                 integrators, conn_vars, object_vars>>

Next ==
  \/ \E b \in BOOLEAN : SetMerge(b)
  \/ \E d \in DtValues : SetDt(d)
  \/ \E m \in MethodInputs : GetIntegrator(m)
  \/ \E b \in BuilderFunctions \cup IntegratorClasses : Import(b)
  \/ Build
  \/ Step

Spec == Init /\ [][Next]_vars

\* ------------------------------------------------------------------------
\* A caller that keeps a log of its calls of one step function
\* ------------------------------------------------------------------------

\* built(y0, t) as in Step, by a caller that keeps, with each call, the
\* first call it made of the step function (first) and whether it has since
\* made a call with other inputs or another sample (others)
StepLogged ==
  /\ built.kind = "step"
  /\ \E y \in 1..MaxY, t \in TValues :
       \E r \in { CallStep(built, profile_dt, np_random, R(y), t) } :
         LET this == [y0 |-> R(y), t |-> t, dW |-> r.dW, ret |-> r.ret,
                      exc |-> r.exc]
             first == IF call.op = "step" THEN call.first ELSE this
             same == /\ first.y0 = this.y0 /\ first.t = this.t
                     /\ first.dW = this.dW
         IN /\ call' = [op |-> "step", y0 |-> R(y), t |-> t, dW |-> r.dW,
                        ret |-> r.ret, exc |-> r.exc, y0_after |-> r.y0,
                        first |-> first,
                        others |-> IF call.op = "step"
                                     THEN call.others \/ ~same ELSE FALSE]
            /\ np_random' = r.rng
  /\ UNCHANGED <<merge_integral, profile_dt, builder, built,
                 integrators, conn_vars, object_vars>>

\* merge mode is off and the profile's dt is left at a quarter
InitCalls == Init /\ merge_integral = FALSE /\ profile_dt = <<1, 4>>

NextCalls ==
  \/ \E b \in BuilderFunctions : Import(b)
  \/ Build
  \/ StepLogged

SpecCalls == InitCalls /\ [][NextCalls]_vars

\* ------------------------------------------------------------------------
\* The update code of Integrator objects that are merged into one update.
\* A line of code is a sequence of words; a word (a name, a number, an
\* operator) is a sequence of characters.
\* ------------------------------------------------------------------------

\* at most this many Integrator objects are merged
MaxMerged == 2

\* the names f.__name__ of the right-hand-side functions
FuncNames == { <<"a">>, <<"a", "_", "b">>, <<"f">> }

\* the argument lists of the right-hand-side functions; the first argument
\* is the variable that is integrated
FuncArgs ==
  { << <<"b", "_", "c">>, <<"t">> >>, << <<"c">>, <<"t">> >>,
    << <<"V">>, <<"t">> >>, << <<"V">>, <<"t">>, <<"l", "i", "n", "e", "a", "r">> >> }

\* A DiffEquation: the name of f, its argument names, the variable, and
\* whether the variable occurs in the drift expression (the sum of the
\* arguments, or of the arguments but the variable).
DiffEquations ==
  { [name |-> n, func_args |-> a, var |-> a[1], has_var |-> h] :
      n \in FuncNames, a \in FuncArgs, h \in BOOLEAN }

\* the words  w1 + w2 + ... of a sum
RECURSIVE SumOf(_)
SumOf(ws) ==
  IF Len(ws) = 0 THEN << <<"0">> >>
  ELSE IF Len(ws) = 1 THEN ws
  ELSE << ws[1], <<"+">> >> \o SumOf(Tail(ws))

\* sympy_to_str of the expanded drift expression
DriftExpr(d) == SumOf(IF d.has_var THEN d.func_args ELSE Tail(d.func_args))

\* str(dt) for the values of dt the model uses
DtStr(dt) ==
  IF dt = <<1, 1>> THEN <<"1", ".", "0">>
  ELSE IF dt = <<1, 4>> THEN <<"0", ".", "2", "5">>
  ELSE <<"n", "a", "n">>

\* f'_{self.py_func_name}_{arg}'
SubstName(py_func_name, arg) == <<"_">> \o py_func_name \o <<"_">> \o arg

\* word_substitute(code, subs_dict): every word of the code that is a key
\* of subs_dict is replaced by its value
word_substitute(code, subs_dict) ==
  [i \in 1..Len(code) |->
     [j \in 1..Len(code[i]) |->
        IF code[i][j] \in DOMAIN subs_dict THEN subs_dict[code[i][j]]
                                            ELSE code[i][j]]]

\* the set of the elements of a sequence
Range(seq) == { seq[i] : i \in 1..Len(seq) }

\* Integrator.argument_substitute(code) of an object with this diff_eqs
argument_substitute(d, code) ==
  LET subs_dict == [arg \in Range(d.func_args) |-> SubstName(d.name, arg)]
  IN word_substitute(code, subs_dict)

\* ExponentialEuler.get_nb_step for a drift of one expression: the lines
\* _d{var}dt = ..., _{name}_linear = ..., {var} = ..., _{name}_res = ...
\* after argument_substitute
ExponentialEuler_update_code(d, pdt) ==
  LET s_df == <<"_", "d">> \o d.var \o <<"d", "t">>
      s_lin_name == <<"_">> \o d.name \o <<"_", "l", "i", "n", "e", "a", "r">>
      res == <<"_">> \o d.name \o <<"_", "r", "e", "s">>
      line_df == << s_df, <<"=">> >> \o DriftExpr(d)
      line_lin == << s_lin_name, <<"=">>, <<"1">> >>
      update ==
        IF d.has_var
          THEN << d.var, <<"+">>, <<"(">>, <<"e", "x", "p">>, <<"(">>,
                  s_lin_name, <<"*">>, DtStr(pdt), <<")">>, <<"-">>, <<"1">>,
                  <<")">>, <<"/">>, s_lin_name, <<"*">>, s_df >>
          ELSE << d.var, <<"+">>, DtStr(pdt), <<"*">>, s_df >>
      line_var == << d.var, <<"=">> >> \o update
      \* the return expression of the function is taken to be the variable
      line_res == << res, <<"=">>, d.var >>
      code_lines == IF d.has_var
                      THEN << line_df, line_lin, line_var, line_res >>
                      ELSE << line_df, line_var, line_res >>
  IN argument_substitute(d, code_lines)

\* ExponentialEuler(diff_eqs), kept for the merge
NewExponentialEuler(d) ==
  /\ Len(integrators) < MaxMerged
  /\ integrators' =
       Append(integrators,
              [cls |-> "ExponentialEuler", diff_eqs |-> d,
               update_code |-> ExponentialEuler_update_code(d, profile_dt)])
  /\ UNCHANGED <<merge_integral, profile_dt, call, builder,
                 built, np_random, conn_vars, object_vars>>

\* merge mode is on
InitMerge == Init /\ merge_integral = TRUE

NextMerge ==
  \/ \E d \in DtValues : SetDt(d)
  \/ \E d \in DiffEquations : NewExponentialEuler(d)

SpecMerge == InitMerge /\ [][NextMerge]_vars

\* ------------------------------------------------------------------------
\* brainpy/building/connect/base.py: TwoEndConnector and the CSR helpers.
\* An ndarray of integers is a sequence, first element at index 0 of the
\* array; a dense matrix is a sequence of rows.  A Python value that may be
\* of one of two types is a record with a field for either: a size is
\* [int, n, dims], the int n or the tuple dims; the structures argument is
\* [str, name, names], the string name or the tuple names.
\* ------------------------------------------------------------------------

\* a CSR pair has at most this many entries in indices, and the entries of
\* indptr are 0..MaxSyn
MaxSyn == 2

\* the seven structures make_returns makes, of SUPPORTED_SYN_STRUCTURE
CONN_MAT == "conn_mat"
PRE_IDS == "pre_ids"
POST_IDS == "post_ids"
PRE2POST == "pre2post"
POST2PRE == "post2pre"
PRE2SYN == "pre2syn"
POST2SYN == "post2syn"
WEIGHT_MAT == "weight_mat"
PRE_SLICE == "pre_slice"
POST_SLICE == "post_slice"

MadeStructures ==
  { CONN_MAT, PRE_IDS, POST_IDS, PRE2POST, POST2PRE, PRE2SYN, POST2SYN }

\* math.asarray(a, dtype=...): the same elements under the given dtype; the
\* arrays of the model hold small non-negative integers, which np.uint32
\* and np.bool_ keep
math_asarray(a, dtype) == [dtype |-> dtype, data |-> a]

\* np.arange(n)
np_arange(n) == [i \in 1..n |-> i - 1]

\* np.diff(a)
np_diff(a) == [i \in 1..(Len(a) - 1) |-> a[i + 1] - a[i]]

\* np.repeat(a, repeats) for repeats that are not negative
RECURSIVE np_repeat(_, _)
np_repeat(a, repeats) ==
  IF Len(a) = 0 THEN <<>>
  ELSE [i \in 1..repeats[1] |-> a[1]] \o np_repeat(Tail(a), Tail(repeats))

\* a returned value, or the exception raised
ConnOk(v) == [ret |-> v, exc |-> NoExc]

ConnErr(type) == [ret |-> "None", exc |-> [type |-> type, msg |-> <<>>]]

\* a variant of the pre_ids computation that lists each pre-synaptic
\* neuron once
PreIds_once(pre_num, indptr) ==
  IF \E i \in 1..(Len(indptr) - 1) : np_diff(indptr)[i] < 0
    THEN ConnErr("ValueError")
    ELSE ConnOk(np_arange(pre_num))

\* np.repeat(np.arange(pre_num), np.diff(indptr)); np.repeat raises
\* ValueError for a negative count
PreIds(pre_num, indptr) ==
  IF \E i \in 1..(Len(indptr) - 1) : np_diff(indptr)[i] < 0
    THEN ConnErr("ValueError")
    ELSE ConnOk(np_repeat(np_arange(pre_num), np_diff(indptr)))

\* the index pairs of d[pre_ids, indices]: two index arrays broadcast if
\* they have one length or one of them has length one
IndexPairs(p, q) ==
  IF Len(p) = Len(q) THEN { <<p[i], q[i]>> : i \in 1..Len(p) }
  ELSE IF Len(p) = 1 THEN { <<p[1], q[i]>> : i \in 1..Len(q) }
  ELSE { <<p[i], q[1]>> : i \in 1..Len(p) }

\* csr2mat(csr, num_pre, num_post)
csr2mat(csr, num_pre, num_post) ==
  LET indices == csr[1]
      indptr == csr[2]
      pre_ids == PreIds(Len(indptr) - 1, indptr)
      pairs == IndexPairs(pre_ids.ret, indices)
  IN IF pre_ids.exc # NoExc THEN pre_ids
     ELSE IF /\ Len(pre_ids.ret) # Len(indices)
             /\ Len(pre_ids.ret) # 1 /\ Len(indices) # 1
       THEN ConnErr("IndexError")
     ELSE IF \E pr \in pairs : pr[1] >= num_pre \/ pr[2] >= num_post
       THEN ConnErr("IndexError")
     ELSE ConnOk([r \in 1..num_pre |->
                    [c \in 1..num_post |-> <<r - 1, c - 1>> \in pairs]])

\* np.argsort(a, kind='mergesort'), as positions 1..Len(a): the stable
\* sorting permutation
np_argsort(a) ==
  CHOOSE p \in [1..Len(a) -> 1..Len(a)] :
    /\ \A i, j \in 1..Len(a) : i # j => p[i] # p[j]
    /\ \A i, j \in 1..Len(a) :
         i < j => \/ a[p[i]] < a[p[j]]
                  \/ (a[p[i]] = a[p[j]] /\ p[i] < p[j])

\* csr2csc(csr, post_num, data): (pre_ids_new, indptr_new, data_new)
csr2csc(csr, post_num, data) ==
  LET indices == csr[1]
      indptr == csr[2]
      pre_ids == PreIds(Len(indptr) - 1, indptr)
      sort_ids == np_argsort(indices)
      pre_ids_new == [k \in 1..Len(sort_ids) |-> pre_ids.ret[sort_ids[k]]]
      \* post_count.cumsum() with 0 inserted in front
      indptr_new ==
        [j \in 1..(post_num + 1) |->
           Cardinality({ i \in 1..Len(indices) : indices[i] < j - 1 })]
      data_new == [k \in 1..Len(sort_ids) |-> data[sort_ids[k]]]
  IN IF pre_ids.exc # NoExc THEN pre_ids
     ELSE IF \E k \in 1..Len(sort_ids) : sort_ids[k] > Len(pre_ids.ret)
       THEN ConnErr("IndexError")
     ELSE IF \E i \in 1..Len(indices) : indices[i] >= post_num
       THEN ConnErr("IndexError")
     ELSE ConnOk(<<pre_ids_new, indptr_new, data_new>>)

\* TwoEndConnector.make_returns(structures, csr) on a connector with the
\* attributes self
make_returns(self, structures, csr) ==
  LET indices == csr[1]
      indptr == csr[2]
      names == IF structures.str THEN <<structures.name>>
                                 ELSE structures.names
      asked(n) == \E i \in 1..Len(names) : names[i] = n
      conn_mat == csr2mat(csr, self.pre_num, self.post_num)
      pre_ids == PreIds(self.pre_num, indptr)
      syn_seq == np_arange(Len(indices))
      csc == csr2csc(csr, self.post_num, syn_seq)
      all_data(n) ==
        CASE n = CONN_MAT -> math_asarray(conn_mat.ret, "bool_")
          [] n = PRE_IDS -> math_asarray(pre_ids.ret, "uint32")
          [] n = POST_IDS -> math_asarray(indices, "uint32")
          [] n = PRE2POST -> << math_asarray(indices, "uint32"),
                                math_asarray(indptr, "uint32") >>
          [] n = POST2PRE -> << math_asarray(csc.ret[1], "uint32"),
                                math_asarray(csc.ret[2], "uint32") >>
          [] n = PRE2SYN -> << math_asarray(syn_seq, "uint32"),
                               math_asarray(indptr, "uint32") >>
          [] n = POST2SYN -> << math_asarray(csc.ret[3], "uint32"),
                                math_asarray(csc.ret[2], "uint32") >>
  IN IF self.pre_num = NoNumber THEN ConnErr("AssertionError")
     ELSE IF self.pre_num # Len(indptr) - 1 THEN ConnErr("AssertionError")
     ELSE IF asked(CONN_MAT) /\ conn_mat.exc # NoExc THEN conn_mat
     ELSE IF asked(PRE_IDS) /\ pre_ids.exc # NoExc THEN pre_ids
     ELSE IF (asked(POST2PRE) \/ asked(POST2SYN)) /\ csc.exc # NoExc THEN csc
     ELSE IF \E i \in 1..Len(names) : names[i] \notin MadeStructures
       THEN ConnErr("KeyError")
     ELSE IF Len(names) = 1 THEN ConnOk(all_data(names[1]))
     ELSE ConnOk([i \in 1..Len(names) |-> all_data(names[i])])

\* tools.size2num(size) of a tuple: the product of its elements
RECURSIVE size2num(_)
size2num(size) == IF Len(size) = 0 THEN 1 ELSE size[1] * size2num(Tail(size))

\* the sizes a connector is called with: an int or a tuple of ints
SizeInputs ==
  { [int |-> TRUE, n |-> 1, dims |-> <<>>],
    [int |-> TRUE, n |-> 2, dims |-> <<>>],
    [int |-> FALSE, n |-> 0, dims |-> <<1, 2>>] }

\* (size,) for an int, tuple(size) otherwise
SizeTuple(size) == IF size.int THEN <<size.n>> ELSE size.dims

\* the sequences over S of length at most n
SeqsUpTo(S, n) == UNION { [1..k -> S] : k \in 0..n }

\* the row pointers of a CSR pair: a running count with 0 in front, as
\* np.insert(count.cumsum(), 0, 0) builds it
IndPtrs ==
  { indptr \in SeqsUpTo(0..MaxSyn, 3) \ { <<>> } :
      /\ indptr[1] = 0
      /\ \A i \in 1..(Len(indptr) - 1) : indptr[i] <= indptr[i + 1] }

\* the CSR pairs make_returns is called with: any indices with any row
\* pointers, of the connector's sizes or not
CsrInputs ==
  { <<indices, indptr>> :
      indices \in SeqsUpTo(0..1, MaxSyn), indptr \in IndPtrs }

\* the structures arguments make_returns is called with
StructureInputs ==
  { [str |-> FALSE, name |-> "", names |-> <<PRE_IDS, POST_IDS, PRE2POST>>],
    [str |-> TRUE, name |-> PRE_IDS, names |-> <<>>],
    [str |-> FALSE, name |-> "", names |-> <<CONN_MAT>>],
    [str |-> FALSE, name |-> "", names |-> <<POST2PRE, POST2SYN>>],
    [str |-> FALSE, name |-> "", names |-> <<PRE2SYN, PRE_SLICE>>] }

\* SUPPORTED_SYN_STRUCTURE
SUPPORTED_SYN_STRUCTURE ==
  << CONN_MAT, WEIGHT_MAT, PRE_IDS, POST_IDS, PRE2POST, POST2PRE, PRE2SYN,
     POST2SYN, PRE_SLICE, POST_SLICE >>

\* the structures arguments check is called with: those of make_returns,
\* None (the name "None" with no list), an empty list, a supported
\* structure make_returns does not build, and unknown names
CheckInputs ==
  StructureInputs \union
  { [str |-> FALSE, name |-> "None", names |-> <<>>],
    [str |-> FALSE, name |-> "", names |-> <<>>],
    [str |-> TRUE, name |-> WEIGHT_MAT, names |-> <<>>],
    [str |-> TRUE, name |-> "pre2pre", names |-> <<>>],
    [str |-> FALSE, name |-> "", names |-> <<PRE_IDS, "ids">>] }

\* TwoEndConnector.check(structures) on a connector with the attributes
\* self: None, or the ConnectorError raised
check(self, structures) ==
  LET names == IF structures.str THEN <<structures.name>>
                                 ELSE structures.names
  IN IF self.pre_num = NoNumber \/ self.post_num = NoNumber
       THEN ConnErr("ConnectorError")
     ELSE IF Len(names) = 0 THEN ConnErr("ConnectorError")
     ELSE IF \E i \in 1..Len(names) :
               \A k \in 1..Len(SUPPORTED_SYN_STRUCTURE) :
                 names[i] # SUPPORTED_SYN_STRUCTURE[k]
       THEN ConnErr("ConnectorError")
     ELSE ConnOk("None")

\* conn.check(structures)
Check(structures) ==
  /\ conn_call.op # "check"
  /\ conn_call' = [op |-> "check", structures |-> structures,
                   exc |-> check(conn, structures).exc]
  /\ UNCHANGED <<merge_integral, profile_dt, call, builder, built,
                 np_random, integrators, conn, object_vars>>

\* conn(pre_size, post_size): TwoEndConnector.__call__
TwoEndConnector_call(pre_size, post_size) ==
  /\ conn' = [pre_size |-> SizeTuple(pre_size),
              post_size |-> SizeTuple(post_size),
              pre_num |-> size2num(SizeTuple(pre_size)),
              post_num |-> size2num(SizeTuple(post_size))]
  /\ conn_call' = [op |-> "__call__", pre_size |-> pre_size,
                   post_size |-> post_size]
  /\ UNCHANGED <<merge_integral, profile_dt, call, builder, built,
                 np_random, integrators, object_vars>>

\* conn.make_returns(structures, csr), once for each setting of the sizes
\* and once before the sizes are set
MakeReturns(structures, csr) ==
  LET r == make_returns(conn, structures, csr) IN
  /\ conn_call.op # "make_returns"
  /\ conn_call' = [op |-> "make_returns", structures |-> structures,
                   csr |-> csr, ret |-> r.ret, exc |-> r.exc]
  /\ UNCHANGED <<merge_integral, profile_dt, call, builder, built,
                 np_random, integrators, conn, object_vars>>

\* the connection matrices have at most this many rows and columns
MaxPreNum == 2

MaxPostNum == 2

\* the boolean matrices of shape (num_pre, num_post), as sequences of rows
Matrices ==
  UNION { [1..n -> [1..m -> BOOLEAN]] : n \in 1..MaxPreNum, m \in 1..MaxPostNum }

\* np.where(dense > 0): the index pairs of the true entries in row-major
\* order, as (pre_ids, post_ids)
np_where(dense) ==
  LET num_post == Len(dense[1])
      RECURSIVE from(_, _)
      from(r, c) ==
        IF r > Len(dense) THEN <<>>
        ELSE IF c > num_post THEN from(r + 1, 1)
        ELSE (IF dense[r][c] THEN << <<r - 1, c - 1>> >> ELSE <<>>)
               \o from(r, c + 1)
      pairs == from(1, 1)
  IN << [k \in 1..Len(pairs) |-> pairs[k][1]],
        [k \in 1..Len(pairs) |-> pairs[k][2]] >>

\* np.unique(a, return_counts=True)[1] for a sorted array a of values below
\* n: the counts of the values that occur, in ascending order of the values
RECURSIVE np_unique_counts(_, _, _)
np_unique_counts(a, v, n) ==
  IF v >= n THEN <<>>
  ELSE LET c == Cardinality({ k \in 1..Len(a) : a[k] = v })
       IN (IF c > 0 THEN <<c>> ELSE <<>>) \o np_unique_counts(a, v + 1, n)

\* np.insert(a.cumsum(), 0, 0)
RECURSIVE SumTo(_, _)
SumTo(a, k) == IF k = 0 THEN 0 ELSE SumTo(a, k - 1) + a[k]

np_cumsum0(a) == [k \in 1..(Len(a) + 1) |-> SumTo(a, k - 1)]

\* mat2csr(dense): (indices, indptr); the row pointers are the running sum
\* of count, the counts of the rows that have a connection
mat2csr(dense) ==
  LET ids == np_where(dense)
      pre_num == Len(dense)
      count == np_unique_counts(ids[1], 0, pre_num)
      indptr == np_cumsum0(count)
  IN << ids[2], indptr >>

\* csr2mat(mat2csr(dense), num_pre, num_post) with the shape of dense
Mat2CsrAndBack(dense) ==
  /\ conn_call.op # "mat2csr"
  /\ conn_call' = [op |-> "mat2csr", dense |-> dense, csr |-> mat2csr(dense),
                   back |-> csr2mat(mat2csr(dense), Len(dense),
                                    Len(dense[1]))]
  /\ UNCHANGED <<merge_integral, profile_dt, call, builder, built,
                 np_random, integrators, conn, object_vars>>

InitConn == Init /\ merge_integral = FALSE /\ profile_dt = <<1, 4>>

NextConn ==
  \/ \E pre_size, post_size \in SizeInputs :
       TwoEndConnector_call(pre_size, post_size)
  \/ \E structures \in StructureInputs, csr \in CsrInputs :
       MakeReturns(structures, csr)
  \/ \E dense \in Matrices : Mat2CsrAndBack(dense)
  \/ \E structures \in CheckInputs : Check(structures)

SpecConn == InitConn /\ [][NextConn]_vars

\* ------------------------------------------------------------------------
\* Properties
\* ------------------------------------------------------------------------

\* sub occurs in s as a contiguous piece
Occurs(sub, s) ==
  \E i \in 0..(Len(s) - Len(sub)) : SubSeq(s, i + 1, i + Len(sub)) = sub

\* C1: get_integrator is case-insensitive: a call with any spelling of a
\* recognised name returns, under the same merge flag, the builder that the
\* lower-case name gets, and raises nothing.
C1_CaseInsensitive ==
  (call.op = "get_integrator" /\ Lower(call.method) \in RecognisedNames)
    => /\ call.exc = NoExc
       /\ call.ret # "None"
       /\ call.ret = get_integrator(Lower(call.method), call.merge).ret

C1_Witness ==
  /\ call.op = "get_integrator"
  /\ call.method = <<"R","K","4">>
  /\ call.ret = "ode_rk4"

\* C2 as stated: an unknown name makes get_integrator fail, no builder is
\* returned, and the message of the error lists the valid method names.
C2_MessageListsValidNames ==
  (call.op = "get_integrator" /\ Lower(call.method) \notin RecognisedNames)
    => /\ call.exc.type # "None"
       /\ call.ret = "None"
       /\ \A n \in RecognisedNames : Occurs(n, call.exc.msg)

\* C2, amended: an unknown name makes get_integrator raise at once the
\* ValueError whose message is 'Unknown method: <name>.' (the text, the name
\* as given, a full stop; valid names are not listed); nothing is returned
\* and the caller is left without a builder.
C2_UnknownMethodRaises ==
  (call.op = "get_integrator" /\ Lower(call.method) \notin RecognisedNames)
    => /\ call.exc.type = "ValueError"
       /\ call.ret = "None"
       /\ builder = "None"
       /\ Len(call.exc.msg) = 17 + Len(call.method)
       /\ SubSeq(call.exc.msg, 17, 16 + Len(call.method)) = call.method
       /\ \E n \in RecognisedNames : ~Occurs(n, call.exc.msg)

C2_Witness ==
  /\ call.op = "get_integrator"
  /\ call.method = <<"n","o","t","_","a","_","m","e","t","h","o","d">>
  /\ call.exc.type = "ValueError"

\* the step functions C3 is about
C3_Codes == { "euler", "ode_rk2", "ode_rk3", "ode_rk4", "ode_rk4_alternative" }

\* C3: a step of Euler, RK2, RK3, RK4 or the 3/8 rule built with
\* multi_return returns a tuple whose elements after the first are exactly
\* the auxiliary part of f(y0, t), the first stage evaluation.
C3_AuxFromFirstStage ==
  (/\ call.op = "step"
   /\ built.code \in C3_Codes
   /\ built.multi
   /\ call.exc = NoExc)
    => /\ call.ret.tup
       /\ From(call.ret.v, 1) = From(DriftVal(built.f, call.y0, call.t), 1)

\* a four-stage step has returned one auxiliary value, that of the first
\* stage, which differs from the one the last evaluation point would give
C3_Witness ==
  /\ call.op = "step"
  /\ built.code = "ode_rk4"
  /\ built.multi
  /\ call.exc = NoExc
  /\ Len(call.ret.v) = 2
  /\ call.ret.v[2] = DriftAux(built.f, call.y0, call.t, 1)
  /\ call.ret.v[2] # DriftAux(built.f, call.ret.v[1], RAdd(call.t, built.dt), 1)

\* the builders that hand a diffusion term that is not callable to sde_euler
C4_Builders == { "sde_Milstein_Ito", "sde_Milstein_Stra", "sde_heun" }

\* C4: with a numeric constant g, a step built by sde_Milstein_Ito,
\* sde_Milstein_Stra or sde_heun does what the step sde_euler builds from
\* the same arguments does on the same (y0, t, dW): it returns
\* y0 + f*dt + g*sqrt(dt)*dW (with the same auxiliary values) or raises the
\* same error, and it is the int_fg that multiplies by g, not one calling g.
C4_ConstDiffusionIsEuler ==
  (/\ call.op = "step"
   /\ built.by \in C4_Builders
   /\ built.g.kind = "const")
    => /\ ~built.gcall
       /\ call.exc =
            StepCall(sde_euler(built.f, built.g, built.dt, built.multi,
                               built.dt, "sde_euler").ret,
                     call.y0, call.t, call.dW).exc
       /\ call.ret =
            StepCall(sde_euler(built.f, built.g, built.dt, built.multi,
                               built.dt, "sde_euler").ret,
                     call.y0, call.t, call.dW).ret
       /\ call.exc = NoExc =>
            call.ret.v[1] =
              RAdd(RAdd(call.y0,
                        RMul(DriftDy(built.f, call.y0, call.t), built.dt)),
                   RMul(RMul(R(built.g.c), RSqrt(built.dt)), call.dW))

C4_Witness ==
  /\ call.op = "step"
  /\ built.by = "sde_Milstein_Ito"
  /\ built.g.kind = "const"
  /\ call.exc = NoExc
  /\ call.dW = R(2)
  /\ call.ret.v[1] # RAdd(call.y0,
                          RMul(DriftDy(built.f, call.y0, call.t), built.dt))

\* C5 as stated: building the parametric RK2 step with beta = 0 fails in the
\* builder; no step function is returned.
C5_BetaZeroRejectedAtBuild ==
  (/\ call.op = "build"
   /\ call.builder = "ode_rk2"
   /\ call.args.beta = R(0))
    => /\ call.exc.type # "None"
       /\ built = NoStep

\* C6 as stated: sde_exponential_euler given a drift that returns a single
\* value (and a valid diffusion term) fails in the builder.
C6_SingleValuedDriftRejectedAtBuild ==
  (/\ call.op = "build"
   /\ call.builder = "sde_exponential_euler"
   /\ ~call.args.f.tup
   /\ call.args.g.kind \in {"callable", "const"})
    => /\ call.exc.type # "None"
       /\ built = NoStep

\* the builders that take a diffusion term
C7_Builders == SdeBuilders \cup {"euler"}

\* C7: every stochastic builder rejects, while it runs, a diffusion term
\* that is neither callable nor an int, float or ndarray (the failed assert
\* is the rejection: AssertionError); so no step function ever holds such a
\* term and none can fail on it when called.
C7_InvalidDiffusionRejectedAtBuild ==
  /\ (/\ call.op = "build"
      /\ call.builder \in C7_Builders
      /\ call.args.g.kind = "invalid")
       => /\ call.exc.type = "AssertionError"
          /\ call.ret = "none"
          /\ built = NoStep
  /\ built.kind = "step" => built.g.kind # "invalid"

C7_Witness ==
  /\ call.op = "build"
  /\ call.builder = "sde_heun"
  /\ call.args.g.kind = "invalid"
  /\ call.exc.type = "AssertionError"
  /\ built = NoStep

\* C8 as stated: ExponentialEuler writes the exponential update only for a
\* drift that is affine in the variable, with the collected coefficient as
\* A, and the plain Euler update for every drift that is not affine.
C8_NonAffineFallsBackToEuler ==
  (call.op = "build" /\ call.builder = "ExponentialEuler")
    => /\ (call.exc = NoExc /\ built.update_code.kind = "exponential")
            => (call.args.f.q = 0
                /\ built.update_code.linear = call.args.f.a)
       /\ call.args.f.q # 0
            => (call.exc = NoExc /\ built.update_code.kind = "euler")

\* the Integrator subclass of each scheme name
C9_SchemeClass(n) ==
  CASE n = N_euler -> "Euler"
    [] n = N_midpoint -> "MidPoint"
    [] n = N_heun -> "Heun"
    [] n = N_rk2 -> "RK2"
    [] n = N_rk3 -> "RK3"
    [] n = N_rk4 -> "RK4"
    [] n = N_exponential -> "ExponentialEuler"
    [] n = N_milstein -> "MilsteinIto"
    [] n = N_milstein_ito -> "MilsteinIto"
    [] n = N_milstein_stra -> "MilsteinStra"

\* C9: get_integrator returns the Integrator subclass of the scheme when
\* profile.merge_integral is true at the call and a builder function when it
\* is false; whatever the flag is set to later, the caller's builder is
\* still the one returned.
C9_MergeFlagReadAtCall ==
  (/\ call.op = "get_integrator"
   /\ Lower(call.method) \in RecognisedNames)
    => /\ call.merge => call.ret = C9_SchemeClass(Lower(call.method))
       /\ ~call.merge => call.ret \in BuilderFunctions
       /\ builder = call.ret

\* the flag has been changed after a lookup, in either direction
C9_Witness ==
  /\ call.op = "get_integrator"
  /\ call.ret \in {"RK4", "ode_rk4"}
  /\ merge_integral # call.merge
  /\ builder = call.ret

\* the builders get_integrator returns with merge mode off
C10_Builders == { get_integrator(n, FALSE).ret : n \in RecognisedNames }

\* the int_f each method name stands for
C10_Code(b) ==
  CASE b = "euler" -> "euler"
    [] b \in {"ode_midpoint", "ode_heun", "sde_rk2"} -> "ode_rk2"
    [] b = "ode_rk3" -> "ode_rk3"
    [] b = "ode_rk4" -> "ode_rk4"
    [] b = "ode_exponential_euler" -> "ode_exponential_euler"
    [] b = "sde_Milstein_Ito" -> "sde_Milstein_Ito"
    [] b = "sde_Milstein_Stra" -> "sde_Milstein_Stra"

\* C10 as stated: with merge mode off, the builder of every accepted name,
\* called with the drift function (and a callable diffusion term where the
\* scheme is stochastic), returns a step function of the named scheme; the
\* builder of 'rk2' returns the parametric RK2 step.
C10_BuilderReturnsStep ==
  (/\ call.op = "build"
   /\ call.builder \in C10_Builders
   /\ call.builder \in SdeBuilders => call.args.g.kind = "callable"
   /\ call.builder \notin SdeBuilders => call.args.g.kind = "absent")
    => /\ call.exc = NoExc
       /\ built.kind = "step"
       /\ built.code = C10_Code(call.builder)

\* C11: 'milstein' and 'milstein_ito' are aliases: under either merge flag
\* get_integrator returns the same builder for both spellings (MilsteinIto
\* when merging, sde_Milstein_Ito otherwise), and 'milstein_stra' gets a
\* builder that is neither of these.
C11_MilsteinAliases ==
  call.op = "get_integrator" =>
    /\ Lower(call.method) \in {N_milstein, N_milstein_ito} =>
         /\ call.exc = NoExc
         /\ call.ret = IF call.merge THEN "MilsteinIto" ELSE "sde_Milstein_Ito"
    /\ Lower(call.method) = N_milstein_stra =>
         /\ call.exc = NoExc
         /\ call.ret \notin {"MilsteinIto", "sde_Milstein_Ito", "None"}

\* the short name has been looked up with merge mode on
C11_Witness ==
  /\ call.op = "get_integrator"
  /\ call.method = N_milstein
  /\ call.merge
  /\ call.ret = "MilsteinIto"

\* C12: dt is bound when a step function is built.  The closure of a step
\* function gets the dt argument of the builder or, when none is given, what
\* profile.get_dt() returns while the builder runs, and the update code of
\* an ExponentialEuler object gets the profile's dt of that moment; no
\* change of the profile's dt touches what has been built; and a call of the
\* step function that repeats the inputs (and the sample dW) of the call
\* before it returns or raises what that call did, whatever has become of
\* the profile's dt in between.
C12_DtBoundAtBuild ==
  [][/\ (call.op # "build" /\ call'.op = "build" /\ built'.kind = "step") =>
          built'.dt = IF call'.args.dt = NoNum THEN profile_dt
                                               ELSE call'.args.dt
     /\ (call.op # "build" /\ call'.op = "build"
           /\ built'.kind = "integrator" /\ built'.update_code # NoCode) =>
          built'.update_code.dt = profile_dt
     /\ profile_dt' # profile_dt => built' = built
     /\ (/\ call.op = "step" /\ call'.op = "step"
         /\ call'.y0 = call.y0 /\ call'.t = call.t /\ call'.dW = call.dW) =>
          (call'.ret = call.ret /\ call'.exc = call.exc)]_vars

\* a step function built by euler(diff_eqs), which takes its dt from the
\* profile, has returned a value while the profile holds another dt
C12_Witness ==
  /\ call.op = "step"
  /\ call.exc = NoExc
  /\ built.by = "euler"
  /\ built.f.a # 0
  /\ profile_dt # built.dt

\* C13: a built step function holds no mutable state and neither changes nor
\* keeps its input.  No call changes the closure of the step function; after
\* every call the caller's y0 is what was passed; and a call with the inputs
\* (y0, t) and the sample dW of the first call returns or raises what the
\* first call did, whatever calls were made in between.
C13_NoMutableState ==
  [][/\ built.kind = "step" => built' = built
     /\ call'.op = "step" =>
          /\ call'.y0_after = call'.y0
          /\ (/\ call'.y0 = call'.first.y0 /\ call'.t = call'.first.t
              /\ call'.dW = call'.first.dW) =>
               (call'.ret = call'.first.ret /\ call'.exc = call'.first.exc)]_vars

\* a stochastic step function has been called again with the inputs and the
\* sample of its first call, after calls with other inputs
C13_Witness ==
  /\ call.op = "step"
  /\ built.stoch
  /\ call.exc = NoExc
  /\ call.others
  /\ call.y0 = call.first.y0 /\ call.t = call.first.t
  /\ call.dW = call.first.dW
  /\ call.ret = call.first.ret

C15_SubstitutedNames(o) ==
  { SubstName(o.diff_eqs.name, arg) : arg \in Range(o.diff_eqs.func_args) }

\* the names the update code of an object assigns to
C15_AssignedNames(o) ==
  { o.update_code[i][1] : i \in 1..Len(o.update_code) }

\* C15 as stated: for any two Integrator objects whose right-hand-side
\* functions have different names, the names argument_substitute makes
\* (_<funcname>_<arg>) and the names their update code assigns to are
\* disjoint, underscores in the names or not.
C15_NamesDisjoint ==
  \A i, j \in 1..Len(integrators) :
    integrators[i].diff_eqs.name # integrators[j].diff_eqs.name =>
      (C15_SubstitutedNames(integrators[i])
         \cup C15_AssignedNames(integrators[i]))
      \cap (C15_SubstitutedNames(integrators[j])
              \cup C15_AssignedNames(integrators[j])) = {}

\* a call of a step function of ode_exponential_euler on dy/dt = A * y has
\* returned: the drift is a*y + t with its linear coefficient a, called at
\* t = 0
C16_LinearCase ==
  /\ call.op = "step"
  /\ call.exc = NoExc
  /\ built.code = "ode_exponential_euler"
  /\ built.f.q = 0
  /\ built.f.lin
  /\ call.t = R(0)

\* C16 as stated: the exponential-Euler step on dy/dt = A * y returns
\* exactly y0 * exp(A * dt) for every y0, every A and every dt; for A = 0
\* that is y0.
C16_ExactForEveryA ==
  C16_LinearCase =>
    call.ret.v[1] =
      IF built.f.a = 0 THEN call.y0
      ELSE <<R(0), call.y0, RMul(R(built.f.a), built.dt)>>

\* C16, amended: the step returns exactly y0 * exp(A * dt), the value
\* 0 + y0 * exp(A * dt), for every y0, every dt and every A but 0; for
\* A = 0 it returns nan, from (exp(0) - 1) / 0.
C16_ExactForNonZeroA ==
  C16_LinearCase =>
    call.ret.v[1] =
      IF built.f.a = 0 THEN NaN
      ELSE <<R(0), call.y0, RMul(R(built.f.a), built.dt)>>

\* the step has been taken for A = -1, y0 = 2 and dt = 1/4
C16_Witness ==
  /\ C16_LinearCase
  /\ built.f.a = -1
  /\ call.y0 = R(2)
  /\ built.dt = <<1, 4>>
  /\ call.ret.v[1] = <<R(0), R(2), <<-1, 4>> >>

\* beta of the scheme the builder stands for
C17_Beta(by) == IF by = "ode_midpoint" THEN <<1, 2>> ELSE <<1, 1>>

\* C17: ode_midpoint and ode_heun are the parametric RK2 with beta = 1/2 and
\* beta = 1: a call of the step function either builder returns gives
\* y0 + dt * ((1 - 1/(2 beta)) * k1 + 1/(2 beta) * k2) with k1 = f(y0, t) and
\* k2 = f(y0 + beta * dt * k1, t + beta * dt).
C17_HeunAndMidpointAreRK2 ==
  (/\ call.op = "step"
   /\ call.exc = NoExc
   /\ built.by \in {"ode_heun", "ode_midpoint"}) =>
    LET beta == C17_Beta(built.by)
        dt == built.dt
        w == RDiv(R(1), RMul(R(2), beta))
        k1 == DriftDy(built.f, call.y0, call.t)
        k2 == DriftDy(built.f, RAdd(call.y0, RMul(RMul(beta, dt), k1)),
                      RAdd(call.t, RMul(beta, dt)))
    IN /\ built.code = "ode_rk2"
       /\ built.beta = beta
       /\ call.ret.v[1] =
            RAdd(call.y0,
                 RMul(dt, RAdd(RMul(RSub(R(1), w), k1), RMul(w, k2))))

\* a step function of ode_heun has returned a value for a quadratic drift,
\* and it is not the value beta = 1/2 gives
C17_Witness ==
  /\ call.op = "step"
  /\ call.exc = NoExc
  /\ built.by = "ode_heun"
  /\ built.f.q = 1
  /\ call.ret.v[1] #
       ode_rk2_int_f([built EXCEPT !.beta = <<1, 2>>], call.y0, call.t).ret.v[1]

\* what the step function of the Ito builder, built for the same f, g, dt
\* and multi_return, returns for the inputs and the sample of the last call
C18_ItoResult ==
  StepCall(sde_Milstein_Ito(built.f, built.g, built.dt, built.multi,
                            profile_dt, "sde_Milstein_Ito").ret,
           call.y0, call.t, call.dW)

\* C18: for a callable g, the same inputs and the same sample dW, the
\* Milstein-Stratonovich and Milstein-Ito steps use one predictor
\* y_bar = y0 + f * dt + g(y0) * sqrt(dt), and the Stratonovich result minus
\* the Ito result is exactly 0.5 * (g(y_bar) - g(y0)) * sqrt(dt).
C18_StraMinusIto ==
  (/\ call.op = "step"
   /\ call.exc = NoExc
   /\ built.code = "sde_Milstein_Stra") =>
    LET f == DriftDy(built.f, call.y0, call.t)
        g_n == GVal(built.g, call.y0, call.t)
        y_bar == RAdd(RAdd(call.y0, RMul(f, built.dt)),
                      RMul(g_n, built.dt_sqrt))
        g_bar == GVal(built.g, y_bar, call.t)
    IN /\ built.g.kind = "callable"
       /\ C18_ItoResult.exc = NoExc
       /\ RSub(call.ret.v[1], C18_ItoResult.ret.v[1]) =
            RMul(RMul(<<1, 2>>, RSub(g_bar, g_n)), built.dt_sqrt)

\* a Stratonovich step has returned for g(y, t) = y, for which the two
\* results differ
C18_Witness ==
  /\ call.op = "step"
  /\ call.exc = NoExc
  /\ built.code = "sde_Milstein_Stra"
  /\ built.g.a = 1
  /\ call.ret.v[1] # C18_ItoResult.ret.v[1]

\* make_returns has been called for ('pre_ids', 'post_ids', 'pre2post') on a
\* connector whose sizes are set, with len(indptr) = pre_num + 1 and
\* indptr[-1] = len(indices)
C19_Case ==
  /\ conn_call.op = "make_returns"
  /\ conn.pre_num # NoNumber
  /\ ~conn_call.structures.str
  /\ conn_call.structures.names = <<PRE_IDS, POST_IDS, PRE2POST>>
  /\ Len(conn_call.csr[2]) = conn.pre_num + 1
  /\ conn_call.csr[2][Len(conn_call.csr[2])] = Len(conn_call.csr[1])

\* the call returned pre_ids, post_ids and the pre2post index array, all as
\* long as there are synapses
C19_SameLength ==
  /\ conn_call.exc = NoExc
  /\ Len(conn_call.ret[1].data) = Len(conn_call.csr[1])
  /\ Len(conn_call.ret[2].data) = Len(conn_call.csr[1])
  /\ Len(conn_call.ret[3][1].data) = Len(conn_call.csr[1])

\* C19: for any connector whose sizes are set and any CSR pair
\* (indices, indptr) with len(indptr) = pre_num + 1 and
\* indptr[-1] = len(indices), make_returns for
\* ('pre_ids', 'post_ids', 'pre2post') returns pre_ids, post_ids and the
\* index array of pre2post, all of one length, the number of synapses.
C19_SizeConsistent == C19_Case => C19_SameLength

\* two pre-synaptic neurons with one synapse each
C19_Witness ==
  /\ C19_Case
  /\ conn_call.csr[2] = <<0, 1, 2>>
  /\ conn_call.ret[1].data = <<0, 1>>
  /\ conn_call.ret[2].data = conn_call.csr[1]

\* the order each deterministic Runge-Kutta builder declares
C20_Order(by) ==
  CASE by = "euler" -> 1
    [] by \in {"ode_rk2", "ode_heun", "ode_midpoint"} -> 2
    [] by = "ode_rk3" -> 3
    [] by \in {"ode_rk4", "ode_rk4_alternative"} -> 4

\* (-dt)^i / i!
RECURSIVE C20_Term(_, _)
C20_Term(i, dt) ==
  IF i = 0 THEN R(1) ELSE RDiv(RMul(C20_Term(i - 1, dt), RNeg(dt)), R(i))

\* the Taylor polynomial of exp(-dt) of degree p
RECURSIVE C20_Taylor(_, _)
C20_Taylor(p, dt) ==
  IF p = 0 THEN C20_Term(0, dt)
  ELSE RAdd(C20_Taylor(p - 1, dt), C20_Term(p, dt))

\* a step function of a deterministic Runge-Kutta builder, built for
\* dy/dt = -y, has returned a value
C20_Case ==
  /\ call.op = "step"
  /\ call.exc = NoExc
  /\ built.by \in {"euler", "ode_rk2", "ode_heun", "ode_midpoint", "ode_rk3",
                   "ode_rk4", "ode_rk4_alternative"}
  /\ ~built.stoch
  /\ built.f = MinusY

\* C20: on dy/dt = -y every deterministic scheme has its declared order
\* (Euler 1, the RK2 family 2, RK3 3, the two RK4 4): one step multiplies
\* y0 by the Taylor polynomial of exp(-dt) of that degree, so the step
\* differs from y0 * exp(-dt) in the terms from dt^(order + 1) on only, and
\* a second step from the result multiplies by it again; N steps from
\* y(0) = 1 give that polynomial to the N, which tends to exp(-N*dt) at
\* the declared order as dt is halved.
C20_DeclaredOrder ==
  C20_Case =>
    LET P == C20_Taylor(C20_Order(built.by), built.dt)
        y1 == call.ret.v[1]
        second == StepCall(built, y1, RAdd(call.t, built.dt), R(0))
    IN /\ y1 = RMul(call.y0, P)
       /\ second.exc = NoExc
       /\ second.ret.v[1] = RMul(RMul(call.y0, P), P)

\* a step function of ode_rk4 with dt = 1/4 has stepped dy/dt = -y from
\* y0 = 1, and the term of degree 4 is in the value it returned
C20_Witness ==
  /\ C20_Case
  /\ built.by = "ode_rk4"
  /\ built.dt = <<1, 4>>
  /\ call.y0 = R(1)
  /\ call.ret.v[1] = <<1595, 2048>>
  /\ call.ret.v[1] # C20_Taylor(3, built.dt)

\* the classes get_integrator returns for its names while
\* profile.merge_integral is True
C21_MergeClasses == { get_integrator(m, TRUE).ret : m \in RecognisedNames }

\* C21: with merge mode on, the class get_integrator returns for any of its
\* names can be instantiated from an equation descriptor without error, and
\* the instance has an update_code that is not None.
C21_InstantiableWithCode ==
  (/\ call.op = "build"
   /\ call.builder \in C21_MergeClasses) =>
    /\ call.exc = NoExc
    /\ built.kind = "integrator"
    /\ built.update_code # NoCode

\* the scheme builders of the claim: for each scheme the builder function
\* and, where the module has one, the Integrator subclass
C22_SchemeBuilders ==
  { "euler", "ode_midpoint", "ode_heun", "ode_rk2", "ode_rk3", "ode_rk4",
    "ode_rk4_alternative", "ode_exponential_euler", "sde_exponential_euler",
    "sde_heun", "sde_Milstein_Ito", "sde_Milstein_Stra",
    "Euler", "MidPoint", "Heun", "RK2", "RK3", "RK4", "RK4Alternative",
    "ExponentialEuler", "MilsteinIto", "MilsteinStra" }

\* C22: the registry is complete: whichever scheme builder of the module a
\* caller holds, get_integrator returns that builder for at least one
\* method name in the matching merge mode (on for a class, off for a
\* function).
C22_RegistryComplete ==
  builder \in C22_SchemeBuilders =>
    \E m \in RecognisedNames :
      get_integrator(m, builder \in IntegratorClasses) = Returned(builder)

\* a step function of ode_exponential_euler or sde_exponential_euler has
\* been called, and the linear coefficient its drift returned (the second
\* element of the tuple) is exactly zero at the inputs of the first call
\* and of the last call
C23_ZeroLinear ==
  /\ call.op = "step"
  /\ built.code \in {"ode_exponential_euler", "sde_exponential_euler"}
  /\ ExpShapeExc(built.multi, built.f) = "None"
  /\ DriftVal(built.f, call.y0, call.t)[2] = R(0)
  /\ DriftVal(built.f, call.first.y0, call.first.t)[2] = R(0)

\* C23: an exponential-Euler step whose linear coefficient is exactly zero
\* neither raises nor switches scheme: the first call and every later call
\* return nan, the result of (exp(0) - 1) / 0, as the state value, and the
\* step function is still the exponential one of its builder.
C23_ZeroLinearPropagatesNaN ==
  C23_ZeroLinear =>
    /\ call.first.exc = NoExc
    /\ call.first.ret.v[1] = NaN
    /\ call.exc = NoExc
    /\ call.ret.v[1] = NaN
    /\ built.code = built.by

\* a step function of sde_exponential_euler has been called more than once
\* with a zero linear coefficient, with inputs that differ from the first
\* call's, and the drift's derivative was not zero in the last call
C23_Witness ==
  /\ C23_ZeroLinear
  /\ built.by = "sde_exponential_euler"
  /\ call.others
  /\ DriftVal(built.f, call.y0, call.t)[1] # R(0)
  /\ call.ret.v[1] = NaN

\* C24: a step function of sde_exponential_euler built with
\* multi_return=True returns (y1, *val[2:]), the drift's return without the
\* derivative and the linear coefficient, whether g is callable or a
\* number; so for a number g = c it returns what the step function built
\* for a callable g that returns c returns for the same y0, t and dW.
C24_SameShapeForConstG ==
  (/\ call.op = "step"
   /\ call.exc = NoExc
   /\ built.by = "sde_exponential_euler"
   /\ built.multi) =>
    LET val == DriftVal(built.f, call.y0, call.t)
        callable_g == [kind |-> "callable", a |-> 0, c |-> built.g.c]
        other == StepCall([built EXCEPT !.gcall = TRUE, !.g = callable_g],
                          call.y0, call.t, call.dW)
    IN /\ call.ret.tup
       /\ Tail(call.ret.v) = From(val, 2)
       /\ ~built.gcall => call.ret = other.ret

\* ------------------------------------------------------------------------
\* The LIF neuron group of examples/neurons/LIF_model.py
\* ------------------------------------------------------------------------

\* at most this many neurons in the group
MaxNum == 2

\* the update ticks are numbered 1..MaxTicks and their times are 0..MaxTime
MaxTicks == 3

MaxTime == 3

\* x < y and x >= y on finite numbers
RLess(x, y) == x[1] * y[2] < y[1] * x[2]

RGeq(x, y) == ~RLess(x, y)

\* the step size of the integral bp.odeint makes of int_V
LIF_dt == <<1, 10>>

\* the pairs (V_reset, V_th) the group is built with: the defaults, and a
\* reset value above the threshold
LIFParams == { <<-5, 20>>, <<25, 20>> }

\* the currents delivered to a neuron between two ticks
LIFInputs == { R(0), R(3000) }

\* LIF.__init__(size, V_reset=V_reset, V_th=V_th), the other parameters
\* with their defaults
LIF_init(size, V_reset, V_th) ==
  [num |-> size,
   V_rest |-> R(0), V_reset |-> R(V_reset), V_th |-> R(V_th), R |-> R(1),
   tau |-> R(10), t_refractory |-> R(1),
   V |-> [i \in 1..size |-> RMul(R(1), R(V_reset))],
   input |-> [i \in 1..size |-> R(0)],
   t_last_spike |-> [i \in 1..size |-> RMul(R(1), R(-10000000))],
   spike |-> [i \in 1..size |-> FALSE],
   refractory |-> [i \in 1..size |-> FALSE]]

\* the derivative int_V returns
LIF_dV(self, V, t, Iext) ==
  RDiv(RAdd(RNeg(RSub(V, self.V_rest)), RMul(self.R, Iext)), self.tau)

\* self.int_V(V, t, Iext): one explicit Euler step of the derivative
LIF_int_V(self, V, t, Iext) == RAdd(V, RMul(LIF_dt, LIF_dV(self, V, t, Iext)))

\* the body of the loop of LIF.update for neuron i, but the voltage is
\* written before the threshold test and is not reset
LIF_update_neuron_noreset(self, i, _t) ==
  IF ~RLess(self.t_refractory, RSub(_t, self.t_last_spike[i]))
    THEN [self EXCEPT !.refractory[i] = TRUE, !.input[i] = R(0)]
    ELSE LET V == LIF_int_V(self, self.V[i], _t, self.input[i]) IN
         IF RGeq(V, self.V_th)
           THEN [self EXCEPT !.V[i] = V, !.spike[i] = TRUE,
                             !.t_last_spike[i] = _t, !.refractory[i] = TRUE,
                             !.input[i] = R(0)]
           ELSE [self EXCEPT !.spike[i] = FALSE, !.V[i] = V,
                             !.refractory[i] = FALSE, !.input[i] = R(0)]

\* the body of the loop of LIF.update for neuron i
LIF_update_neuron(self, i, _t) ==
  IF ~RLess(self.t_refractory, RSub(_t, self.t_last_spike[i]))
    THEN [self EXCEPT !.refractory[i] = TRUE, !.input[i] = R(0)]
    ELSE LET V == LIF_int_V(self, self.V[i], _t, self.input[i]) IN
         IF RGeq(V, self.V_th)
           THEN [self EXCEPT !.V[i] = self.V_reset, !.spike[i] = TRUE,
                             !.t_last_spike[i] = _t, !.refractory[i] = TRUE,
                             !.input[i] = R(0)]
           ELSE [self EXCEPT !.spike[i] = FALSE, !.V[i] = V,
                             !.refractory[i] = FALSE, !.input[i] = R(0)]

\* LIF.update(_t, _i): for i in range(self.num), from neuron i on
RECURSIVE LIF_update_from(_, _, _)
LIF_update_from(self, i, _t) ==
  IF i > self.num THEN self
  ELSE LIF_update_from(LIF_update_neuron(self, i, _t), i + 1, _t)

LIF_update(self, _t, _i) == LIF_update_from(self, 1, _t)

\* group = LIF(size, V_reset=..., V_th=...)
NewLIF(size, p) ==
  /\ lif = NoLIF
  /\ lif' = LIF_init(size, p[1], p[2])
  /\ lif_call' = [op |-> "init", _t |-> R(0), _i |-> 0,
                  before |-> LIF_init(size, p[1], p[2])]
  /\ UNCHANGED <<merge_integral, profile_dt, call, builder, built,
                 np_random, integrators, conn_vars, container, array_vars>>

\* the currents of one tick arrive: group.input[:] = inp
LIFInput(inp) ==
  /\ lif # NoLIF
  /\ Len(inp) = lif.num
  /\ lif_call.op \in {"init", "update"}
  /\ lif_call._i < MaxTicks
  /\ lif' = [lif EXCEPT !.input = inp]
  /\ lif_call' = [lif_call EXCEPT !.op = "input"]
  /\ UNCHANGED <<merge_integral, profile_dt, call, builder, built,
                 np_random, integrators, conn_vars, container, array_vars>>

\* group.update(_t, _i), the tick after tick lif_call._i; lif_call keeps
\* the group as it was when the call began
LIFUpdate(_t) ==
  /\ lif # NoLIF
  /\ lif_call._i < MaxTicks
  /\ lif' = LIF_update(lif, _t, lif_call._i + 1)
  /\ lif_call' = [op |-> "update", _t |-> _t, _i |-> lif_call._i + 1,
                  before |-> lif]
  /\ UNCHANGED <<merge_integral, profile_dt, call, builder, built,
                 np_random, integrators, conn_vars, container, array_vars>>

\* the input vectors of a group of num neurons
LIFInputVectors(num) == [1..num -> LIFInputs]

InitLIF == Init /\ merge_integral = FALSE /\ profile_dt = <<1, 4>>

NextLIF ==
  \/ \E size \in 1..MaxNum, p \in LIFParams : NewLIF(size, p)
  \/ \E num \in 1..MaxNum : \E inp \in LIFInputVectors(num) : LIFInput(inp)
  \/ \E t \in 0..MaxTime : LIFUpdate(R(t))

SpecLIF == InitLIF /\ [][NextLIF]_vars

\* neuron i is out of its refractory period when the last update began and
\* the voltage integrated from the values the group had then reaches V_th
C25_Reached(i) ==
  LET self == lif_call.before IN
  /\ RLess(self.t_refractory, RSub(lif_call._t, self.t_last_spike[i]))
  /\ RGeq(LIF_int_V(self, self.V[i], lif_call._t, self.input[i]), self.V_th)

\* C25: in a LIF group built with V_reset < V_th, after construction and
\* after every update tick, whatever the currents and the times, every V[i]
\* is strictly below V_th; after an update at time _t every input[i] is
\* zero, and a neuron whose integrated voltage reached V_th in that tick has
\* V[i] = V_reset, t_last_spike[i] = _t and refractory[i] = True.
C25_BelowThreshold ==
  (lif # NoLIF /\ RLess(lif.V_reset, lif.V_th)) =>
    /\ \A i \in 1..lif.num : RLess(lif.V[i], lif.V_th)
    /\ lif_call.op = "update" =>
         \A i \in 1..lif.num :
           /\ lif.input[i] = R(0)
           /\ C25_Reached(i) =>
                /\ lif.V[i] = lif.V_reset
                /\ lif.t_last_spike[i] = lif_call._t
                /\ lif.refractory[i]

\* a group of two neurons with V_reset < V_th has been updated: neuron 1
\* got a current, reached V_th and was reset; neuron 2 was integrated
\* without reaching it
C25_Witness ==
  /\ lif # NoLIF
  /\ RLess(lif.V_reset, lif.V_th)
  /\ lif.num = 2
  /\ lif_call.op = "update"
  /\ lif_call.before.input[1] # R(0)
  /\ C25_Reached(1)
  /\ ~C25_Reached(2)
  /\ lif.V[2] # lif_call.before.V[2]

\* C26: after an update at time _t the flag spike[i] is true if and only if
\* neuron i crossed the threshold in that very tick, and then
\* t_last_spike[i] = _t; so spike[i] is false in the ticks the neuron
\* spends in its refractory period.
C26_SpikeOnlyInSpikeTick ==
  (lif_call.op = "update" /\ RLess(lif.V_reset, lif.V_th)) =>
    \A i \in 1..lif.num :
      /\ lif.spike[i] <=> C25_Reached(i)
      /\ lif.spike[i] => lif.t_last_spike[i] = lif_call._t

\* ------------------------------------------------------------------------
\* Container of brainpy/simulation/brainobjects/container.py
\* ------------------------------------------------------------------------

\* at most this many children are passed, each with at most this many steps
MaxChildren == 2

MaxSteps == 2

\* the keyword names of the children and the keys of their steps
ChildKeys == { <<"a">>, <<"a","_","b">>, <<"b">> }

StepKeys == { <<"b","_","c">>, <<"c">>, <<"u","p","d","a","t","e">> }

\* no element occurs twice in q
IsDistinct(q) == \A i, j \in 1..Len(q) : q[i] = q[j] => i = j

\* obj.steps of the child passed as obj_key: an ordered dict from its step
\* keys to its bound methods, here the pairs (object, method name)
ChildSteps(obj_key, keys) ==
  [i \in 1..Len(keys) |->
     [key |-> keys[i], step |-> [obj |-> obj_key, fn |-> keys[i]]]]

\* the values passed as **dynamic_systems, in the order of the call: a
\* DynamicSystem with its steps, or an object of another type
Children ==
  { c \in UNION { [1..n -> [key : ChildKeys, isds : BOOLEAN,
                            step_keys : { q \in SeqsUpTo(StepKeys, MaxSteps) :
                                            IsDistinct(q) }]] :
                  n \in 0..MaxChildren } :
      /\ IsDistinct([i \in 1..Len(c) |-> c[i].key])
      /\ \A i \in 1..Len(c) : ~c[i].isds => c[i].step_keys = <<>> }

\* steps=None, or a dict of step functions of the caller
StepsArgs ==
  { [given |-> FALSE, items |-> <<>>],
    [given |-> TRUE,
     items |-> << [key |-> <<"u","p","d","a","t","e">>,
                   step |-> [obj |-> <<>>, fn |-> <<"f">>]] >>] }

MonitorsArgs == { "None", "monitors" }

\* d[key] = value on an ordered dict: a key the dict holds keeps its place
\* and gets the value, a new key goes to the end
RECURSIVE dict_setitem(_, _, _)
dict_setitem(d, key, value) ==
  IF d = <<>> THEN << [key |-> key, step |-> value] >>
  ELSE IF Head(d).key = key THEN << [key |-> key, step |-> value] >> \o Tail(d)
  ELSE << Head(d) >> \o dict_setitem(Tail(d), key, value)

\* f'{obj_key}_{step_key}'
StepName(obj_key, step_key) == obj_key \o <<"_">> \o step_key

\* for step_key, step in obj.steps.items(): steps[...] = step, from item j
RECURSIVE Container_add_steps(_, _, _, _)
Container_add_steps(steps, obj_key, obj_steps, j) ==
  IF j > Len(obj_steps) THEN steps
  ELSE Container_add_steps(
         dict_setitem(steps, StepName(obj_key, obj_steps[j].key),
                      obj_steps[j].step),
         obj_key, obj_steps, j + 1)

\* for obj_key, obj in dynamic_systems.items(): ..., from child i
RECURSIVE Container_collect(_, _, _)
Container_collect(steps, dynamic_systems, i) ==
  IF i > Len(dynamic_systems) THEN steps
  ELSE Container_collect(
         Container_add_steps(steps, dynamic_systems[i].key,
                             ChildSteps(dynamic_systems[i].key,
                                        dynamic_systems[i].step_keys), 1),
         dynamic_systems, i + 1)

\* Container.__init__(steps, monitors, name, **dynamic_systems)
Container_init(steps, monitors, dynamic_systems) ==
  IF \E i \in 1..Len(dynamic_systems) : ~dynamic_systems[i].isds
    THEN [op |-> "init", exc |-> "ModelUseError", children |-> dynamic_systems,
          steps_arg |-> steps, steps |-> <<>>]
  ELSE IF monitors # "None"
    THEN [op |-> "init", exc |-> "ModelUseError", children |-> dynamic_systems,
          steps_arg |-> steps, steps |-> <<>>]
  ELSE [op |-> "init", exc |-> "None", children |-> dynamic_systems,
        steps_arg |-> steps,
        steps |-> IF ~steps.given
                    THEN Container_collect(<<>>, dynamic_systems, 1)
                    ELSE steps.items]

\* Container(steps=..., monitors=..., **dynamic_systems)
NewContainer(steps, monitors, dynamic_systems) ==
  /\ container.op = "none"
  /\ container' = Container_init(steps, monitors, dynamic_systems)
  /\ UNCHANGED <<merge_integral, profile_dt, call, builder, built,
                 np_random, integrators, conn_vars, lif_vars, array_vars>>

InitContainer == Init /\ merge_integral = FALSE /\ profile_dt = <<1, 4>>

NextContainer ==
  \E steps \in StepsArgs, monitors \in MonitorsArgs, cs \in Children :
    NewContainer(steps, monitors, cs)

SpecContainer == InitContainer /\ [][NextContainer]_vars

\* the (child, step) pairs of the children of the container, ordered by
\* child and then by step
C27_Pairs ==
  LET cs == container.children
      RECURSIVE from(_, _)
      from(i, j) ==
        IF i > Len(cs) THEN <<>>
        ELSE IF j > Len(cs[i].step_keys) THEN from(i + 1, 1)
        ELSE << [key |-> StepName(cs[i].key, cs[i].step_keys[j]),
                 step |-> [obj |-> cs[i].key, fn |-> cs[i].step_keys[j]]] >>
               \o from(i, j + 1)
  IN from(1, 1)

\* C27: a Container built without explicit steps has exactly one entry of
\* steps for every (child, step) pair of its children, keyed
\* '<child key>_<step key>' and ordered by child and then by step: no step
\* of a child is lost or overwritten, whatever the keys.
C27_OneEntryPerChildStep ==
  (/\ container.op = "init"
   /\ container.exc = "None"
   /\ ~container.steps_arg.given) =>
    container.steps = C27_Pairs

\* C28: mat2csr and csr2mat are inverse on connection matrices: for every
\* boolean matrix of shape (num_pre, num_post), rows without a connection
\* included, the row pointers mat2csr returns have length num_pre + 1 and
\* csr2mat gives the matrix back from the pair.
C28_RoundTrip ==
  conn_call.op = "mat2csr" =>
    /\ Len(conn_call.csr[2]) = Len(conn_call.dense) + 1
    /\ conn_call.back.exc = NoExc
    /\ conn_call.back.ret = conn_call.dense

\* the names of a structures argument
C29_Names(structures) ==
  IF structures.str THEN <<structures.name>> ELSE structures.names

\* a CSR pair of the connector's sizes: one row pointer per pre-synaptic
\* neuron and one more, one index per synapse, every index a post-synaptic
\* neuron
C29_ValidCsr(csr) ==
  /\ Len(csr[2]) = conn.pre_num + 1
  /\ csr[2][Len(csr[2])] = Len(csr[1])
  /\ \A k \in 1..Len(csr[1]) : csr[1][k] < conn.post_num

\* check raises ConnectorError exactly when the sizes were never set, no
\* structure is given, or a structure is not in SUPPORTED_SYN_STRUCTURE
C29_CheckRaises ==
  conn_call.op = "check" =>
    LET names == C29_Names(conn_call.structures)
        bad == \/ conn.pre_num = NoNumber
               \/ conn.post_num = NoNumber
               \/ Len(names) = 0
               \/ \E i \in 1..Len(names) :
                    \A k \in 1..Len(SUPPORTED_SYN_STRUCTURE) :
                      names[i] # SUPPORTED_SYN_STRUCTURE[k]
    IN /\ bad => conn_call.exc.type = "ConnectorError"
       /\ ~bad => conn_call.exc = NoExc

\* for a non-empty list of structures that check accepts, make_returns on
\* a valid CSR returns without error
C29_AcceptedIsMade ==
  (/\ conn_call.op = "make_returns"
   /\ check(conn, conn_call.structures).exc = NoExc
   /\ C29_ValidCsr(conn_call.csr))
  => conn_call.exc = NoExc

\* C29: TwoEndConnector.check and make_returns agree: check raises
\* ConnectorError when the sizes were never set, when no structure is
\* given, or when a structure is not supported, and make_returns on a
\* valid CSR returns without error for every list check accepts.
C29_CheckAndMakeReturnsAgree == C29_CheckRaises /\ C29_AcceptedIsMade

\* ---------------------------------------------------------------------
\* brainpy/math/numpy/ndarray.py: Variable, TrainVar, Parameter

\* at most this many arrays are created
MaxArrays == 2

\* the values arrays are created from
ArrayValues == { <<0>>, <<1>> }

\* the type tags a Variable is created with
TypeTags == { <<>>, <<"t", "r", "a", "i", "n">>, <<"p", "a", "r", "a", "m">>,
              <<"x">> }

\* np.asarray(value): a plain ndarray, which has no type attribute
np_asarray(value) ==
  [cls |-> "ndarray", value |-> value, type |-> <<>>, replicate |-> "None"]

\* Variable.__new__(cls, value, type, replicate)
Variable_new(cls, value, type, replicate) ==
  [cls |-> cls, value |-> np_asarray(value).value, type |-> type,
   replicate |-> replicate]

\* TrainVar.__new__(cls, value, replicate)
TrainVar_new(value, replicate) ==
  Variable_new("TrainVar", value, <<"t", "r", "a", "i", "n">>, replicate)

\* Parameter.__new__(cls, value, replicate)
Parameter_new(value, replicate) ==
  Variable_new("Parameter", value, <<"p", "a", "r", "a", "m">>, replicate)

\* isinstance(obj, Variable)
IsVariable(obj) == obj.cls \in { "Variable", "TrainVar", "Parameter" }

\* Variable.issametype(self, other)
Variable_issametype(self, other) ==
  IF Len(self.type) > 0 THEN ~IsVariable(other)
  ELSE IF ~IsVariable(other) THEN FALSE
  ELSE other.type = self.type

\* np.asarray(value)
NewArray(value) ==
  /\ Len(arrays) < MaxArrays
  /\ arrays' = Append(arrays, np_asarray(value))
  /\ array_call' = [op |-> "asarray"]
  /\ UNCHANGED <<merge_integral, profile_dt, call, builder, built,
                 np_random, integrators, conn_vars, lif_vars, container>>

\* Variable(value, type)
NewVariable(value, type) ==
  /\ Len(arrays) < MaxArrays
  /\ arrays' = Append(arrays, Variable_new("Variable", value, type, "None"))
  /\ array_call' = [op |-> "Variable"]
  /\ UNCHANGED <<merge_integral, profile_dt, call, builder, built,
                 np_random, integrators, conn_vars, lif_vars, container>>

\* TrainVar(value)
NewTrainVar(value) ==
  /\ Len(arrays) < MaxArrays
  /\ arrays' = Append(arrays, TrainVar_new(value, "None"))
  /\ array_call' = [op |-> "TrainVar"]
  /\ UNCHANGED <<merge_integral, profile_dt, call, builder, built,
                 np_random, integrators, conn_vars, lif_vars, container>>

\* Parameter(value)
NewParameter(value) ==
  /\ Len(arrays) < MaxArrays
  /\ arrays' = Append(arrays, Parameter_new(value, "None"))
  /\ array_call' = [op |-> "Parameter"]
  /\ UNCHANGED <<merge_integral, profile_dt, call, builder, built,
                 np_random, integrators, conn_vars, lif_vars, container>>

\* arrays[self].issametype(arrays[other]); self is a Variable
IsSameType(self, other) ==
  /\ self <= Len(arrays) /\ other <= Len(arrays)
  /\ IsVariable(arrays[self])
  /\ array_call' = [op |-> "issametype", self |-> self, other |-> other,
                    ret |-> Variable_issametype(arrays[self], arrays[other])]
  /\ UNCHANGED <<merge_integral, profile_dt, call, builder, built,
                 np_random, integrators, conn_vars, lif_vars, container,
                 arrays>>

InitVariable == Init /\ merge_integral = FALSE /\ profile_dt = <<1, 4>>

NextVariable ==
  \/ \E value \in ArrayValues : NewArray(value)
  \/ \E value \in ArrayValues, type \in TypeTags : NewVariable(value, type)
  \/ \E value \in ArrayValues : NewTrainVar(value)
  \/ \E value \in ArrayValues : NewParameter(value)
  \/ \E self, other \in 1..MaxArrays : IsSameType(self, other)

SpecVariable == InitVariable /\ [][NextVariable]_vars

\* C30: Variable.issametype(other) returns True exactly when other is a
\* Variable whose type tag equals self.type (two TrainVar instances are
\* the same type; a TrainVar and a Parameter, or a Variable and a plain
\* array, are not), and between two Variables the answer does not depend
\* on which of them is asked.
C30_SameTypeIffEqualTags ==
  array_call.op = "issametype" =>
    LET self == arrays[array_call.self]
        other == arrays[array_call.other]
    IN /\ array_call.ret <=> (IsVariable(other) /\ other.type = self.type)
       /\ IsVariable(other) =>
            array_call.ret = Variable_issametype(other, self)

====
